---- MODULE Spec2Model ----
(***************************************************************************)
(* A model of the creative-brief core of the repository:                   *)
(*   app/utils/palette_utils.py   colour helpers and the palette analyser  *)
(*   app/core/brand_extractor.py  the brand profile and its merge rule     *)
(*   app/core/context_engine.py   the expansion of a context into themed   *)
(*                                variations                               *)
(*   app/main.py                  the generation pipeline behind /generate *)
(*                                                                         *)
(* Python values are modelled as follows.  A dict is a function whose      *)
(* domain is a set of strings (a record).  A list is a sequence.  A str is *)
(* a TLA+ string, built with \o where the code formats it.  A call either  *)
(* returns a value or raises: Return(v) and Raise(e).  None is the record  *)
(* None.  Python indexes from 0 and sequences from 1: a 0-based index i of *)
(* the code reads element i + 1 of the sequence.                           *)
(***************************************************************************)
EXTENDS Integers, Sequences, FiniteSets, TLC

VARIABLES
    colors,            \* palette analyser: the list handed to get_brand_palette_info
    palette_result,    \* palette analyser: the outcome of the call
    given_context,     \* variation engine: the base context as the caller built it
    base_context,      \* variation engine: the base context of the call
    num_variations,    \* variation engine: the requested number of variations
    i,                 \* variation engine: the loop counter of line 150
    variations,        \* variation engine: the list built so far
    expand_pc,         \* variation engine: position in create_context_variations
    logo_image,        \* brand extractor: the logo_image argument
    product_image,     \* brand extractor: the product_image argument
    brand_name,        \* brand extractor: the brand_name argument
    product_category,  \* brand extractor: the product_category argument
    brand_result,      \* brand extractor: the outcome of extract_brand_info
    request,           \* pipeline: the form fields and files of the POST /generate
    pipeline_pc,       \* pipeline: position in generate_creatives
    logo_img,          \* pipeline: the opened logo, or None
    product_img,       \* pipeline: the opened product image, or None
    brand_info,        \* pipeline: the brand profile
    context_variations,\* pipeline: the expanded contexts
    prompts,           \* pipeline: one prompt per variation
    image_idx,         \* pipeline: how many prompts the loop of line 134 has taken
    generated_images,  \* pipeline: the images collected by the loop of line 134
    captions,          \* pipeline: one caption per variation
    response,          \* pipeline: the answer to the request
    clock,             \* what datetime.now() returns: [month, hour]
    ws_api_key,        \* weather service: self.api_key ("" for None)
    ws_live,           \* weather service: what the live source does when called
    ws_city,           \* weather service: the city argument of get_weather
    ws_requests,       \* weather service: how many requests.get calls were made
    weather_result,    \* weather service: the outcome of get_weather
    sentence_result,   \* weather service: the outcome of get_weather_context
    season_result,     \* weather service: the outcome of get_season
    time_of_day_result,\* weather service: the outcome of get_time_of_day
    ctx_args,          \* get_context: city, product_category, custom_context
    ctx_pc,            \* get_context: position in the call
    ctx_weather_data,  \* get_context: local weather_data
    ctx_weather_context,\* get_context: local weather_context
    ctx_season,        \* get_context: local season
    ctx_time_of_day,   \* get_context: local time_of_day
    ctx_result,        \* get_context: the outcome of the call
    ticks,             \* get_context: how often the clock advanced during the call
    pb_given,          \* prompt builder: the arguments as the caller built them
    pb_brand_info,     \* prompt builder: the brand_info dict the caller holds
    pb_context,        \* prompt builder: the context dict the caller holds
    pb_prompts,        \* prompt builder: the prompts returned so far
    style_args,        \* style phrase: brand_info and context of the call
    style_result,      \* style phrase: the outcome of _get_style_modifiers
    hex_start,         \* hex conversion: the string or the colour converted first
    hex_mid,           \* hex conversion: the outcome of the first conversion
    hex_back,          \* hex conversion: the outcome of converting hex_mid back
    cap_args,          \* caption: brand_info, context, tone and max_length of the call
    cap_model,         \* caption: None without a model, else what the model does when asked
    cap_result         \* caption: the outcome of generate_caption

paletteVars == <<colors, palette_result>>
expandVars  == <<given_context, base_context, num_variations, i, variations, expand_pc>>
brandVars   == <<logo_image, product_image, brand_name, product_category, brand_result>>
pipelineVars == <<request, pipeline_pc, logo_img, product_img, brand_info,
                  context_variations, prompts, image_idx, generated_images,
                  captions, response>>
weatherVars == <<clock, ws_api_key, ws_live, ws_city, ws_requests, weather_result, sentence_result,
                 season_result, time_of_day_result>>
contextVars == <<ctx_args, ctx_pc, ctx_weather_data, ctx_weather_context, ctx_season,
                 ctx_time_of_day, ctx_result, ticks>>
promptVars == <<pb_given, pb_brand_info, pb_context, pb_prompts>>
styleVars == <<style_args, style_result>>
hexVars == <<hex_start, hex_mid, hex_back>>
captionVars == <<cap_args, cap_model, cap_result>>
utilVars == <<styleVars, hexVars, captionVars>>
vars == <<paletteVars, expandVars, brandVars, pipelineVars,
          weatherVars, contextVars, promptVars, utilVars>>

(***************************************************************************)
(* Bounds of the model.                                                    *)
(***************************************************************************)
MaxColors == 4        \* longest colour list handed to the analyser
MaxVariations == 12   \* largest num_variations (two positions share a theme from 11 on)
MaxCreatives == 2     \* largest num_creatives of a request to the pipeline
MaxTicks == 1         \* how often the clock advances during one get_context call
MaxCalls == 2         \* how often build_prompt is called with the same arguments

\* caption_generator.py line 23: max_length: int = 150
DefaultMaxLength == 150

(***************************************************************************)
(* Outcomes of a call, and None.                                           *)
(***************************************************************************)
None == [kind |-> "None"]
Pending == [kind |-> "pending"]
Return(v) == [kind |-> "return", value |-> v]
Raise(e) == [kind |-> "raise", error |-> e]

Min2(a, b) == IF a < b THEN a ELSE b
Max3(a, b, c) == IF a >= b /\ a >= c THEN a ELSE IF b >= c THEN b ELSE c
Min3(a, b, c) == IF a <= b /\ a <= c THEN a ELSE IF b <= c THEN b ELSE c
\* lst[:n]
Slice(lst, n) == SubSeq(lst, 1, Min2(n, Len(lst)))

\* k in d
HasKey(d, k) == k \in DOMAIN d

\* d[k] = v on a dict
DictSet(d, k, v) == [x \in (DOMAIN d) \cup {k} |-> IF x = k THEN v ELSE d[x]]

\* an update that keeps the value of a key the dict already has
DictUpdate_Mutant(d, other) ==
    [x \in (DOMAIN d) \cup (DOMAIN other) |-> IF x \in DOMAIN d THEN d[x] ELSE other[x]]

\* d.update(other)
DictUpdate(d, other) ==
    [x \in (DOMAIN d) \cup (DOMAIN other) |-> IF x \in DOMAIN other THEN other[x] ELSE d[x]]

(***************************************************************************)
(* palette_utils.py                                                        *)
(***************************************************************************)
HexDigits == <<"0", "1", "2", "3", "4", "5", "6", "7",
               "8", "9", "a", "b", "c", "d", "e", "f">>

\* '{:02x}'.format(n) for a channel 0..255: two lowercase hex digits.
Format02x(n) == HexDigits[(n \div 16) + 1] \o HexDigits[(n % 16) + 1]

rgb_to_hex(rgb) == "#" \o Format02x(rgb[1]) \o Format02x(rgb[2]) \o Format02x(rgb[3])

\* hex_color.lstrip('#')
RECURSIVE LStripHash(_)
LStripHash(str) ==
    IF Len(str) > 0 /\ SubSeq(str, 1, 1) = "#" THEN LStripHash(SubSeq(str, 2, Len(str)))
    ELSE str

UpperHexDigits == <<"A", "B", "C", "D", "E", "F">>

\* the value of one base-16 digit, capitals included; -1 for any other character
DigitValue(ch) ==
    IF \E k \in 1..16 : HexDigits[k] = ch
    THEN (CHOOSE k \in 1..16 : HexDigits[k] = ch) - 1
    ELSE IF \E k \in 1..6 : UpperHexDigits[k] = ch
    THEN (CHOOSE k \in 1..6 : UpperHexDigits[k] = ch) + 9
    ELSE -1

\* int(pair, 16) for a slice of at most two characters: two digits, or one
\* digit with a sign before it or a blank on either side; anything else
\* (the empty slice included) is a ValueError
IntBase16(pair) ==
    LET a == SubSeq(pair, 1, 1)
        b == SubSeq(pair, 2, 2)
    IN  IF Len(pair) = 0 THEN Raise("ValueError")
        ELSE IF Len(pair) = 1
        THEN IF DigitValue(a) >= 0 THEN Return(DigitValue(a)) ELSE Raise("ValueError")
        ELSE IF DigitValue(a) >= 0 /\ DigitValue(b) >= 0
        THEN Return(16 * DigitValue(a) + DigitValue(b))
        ELSE IF a \in {"+", " "} /\ DigitValue(b) >= 0 THEN Return(DigitValue(b))
        ELSE IF a = "-" /\ DigitValue(b) >= 0 THEN Return(0 - DigitValue(b))
        ELSE IF DigitValue(a) >= 0 /\ b = " " THEN Return(DigitValue(a))
        ELSE Raise("ValueError")

\* a conversion that reads the pairs without stripping the '#'
hex_to_rgb_Mutant(hex_color) ==
    LET pair(k) == IntBase16(SubSeq(hex_color, k + 1, Min2(k + 2, Len(hex_color))))
    IN  IF \E k \in {0, 2, 4} : pair(k).kind = "raise" THEN Raise("ValueError")
        ELSE Return(<<pair(0).value, pair(2).value, pair(4).value>>)

\* lines 59-62: the slices hex_color[i:i+2] for i in (0, 2, 4) of the stripped string
hex_to_rgb(hex_color) ==
    LET stripped == LStripHash(hex_color)
        pair(k) == IntBase16(SubSeq(stripped, k + 1, Min2(k + 2, Len(stripped))))
    IN  IF \E k \in {0, 2, 4} : pair(k).kind = "raise" THEN Raise("ValueError")
        ELSE Return(<<pair(0).value, pair(2).value, pair(4).value>>)

\* The colours with 299r + 587g + 114b = 128000 (exact brightness 128) for
\* which the double-precision sum 0.299*r + 0.587*g + 0.114*b evaluates to
\* 127.99999999999999 rather than 128.0; only those the model draws are listed.
RoundsBelow == { <<128, 128, 128>>, <<8, 200, 72>> }

\* get_color_brightness returns a double.  The model returns it in units of
\* 1/2000: twice the exact value in thousandths, less one where the double sum
\* falls short of the exact value at a whole number.  The rounding error of the
\* double sum is below 1e-12, so every comparison with a whole threshold is kept.
get_color_brightness(rgb) ==
    2 * (299 * rgb[1] + 587 * rgb[2] + 114 * rgb[3])
      - (IF rgb \in RoundsBelow THEN 1 ELSE 0)

is_dark_color(rgb, threshold) == get_color_brightness(rgb) < threshold * 2000

\* saturation of lines 94-96 as the exact fraction <<numerator, denominator>>.
\* Distinct such fractions differ by more than 1/65025 and equal ones divide to
\* the same double, so comparing the fractions is comparing the doubles.
Saturation(color) ==
    LET max_val == Max3(color[1], color[2], color[3])
        min_val == Min3(color[1], color[2], color[3])
    IN  IF max_val > 0 THEN <<max_val - min_val, max_val>> ELSE <<0, 1>>

\* the comparison of line 98 weakened to >=: a later colour takes over on a tie
FracGT_Mutant(a, b) == a[1] * b[2] >= b[1] * a[2]

FracGT(a, b) == a[1] * b[2] > b[1] * a[2]

\* The loop of lines 92-100, from 0-based index idx on; yields primary_idx.
RECURSIVE PrimaryLoop(_, _, _, _)
PrimaryLoop(clrs, idx, primary_idx, max_saturation) ==
    IF idx >= Len(clrs) THEN primary_idx
    ELSE LET saturation == Saturation(clrs[idx + 1])
         IN  IF FracGT(saturation, max_saturation)
             THEN PrimaryLoop(clrs, idx + 1, idx, saturation)
             ELSE PrimaryLoop(clrs, idx + 1, primary_idx, max_saturation)

\* sum(is_dark_color(c) for c in colors)
RECURSIVE SumDark(_)
SumDark(clrs) ==
    IF clrs = <<>> THEN 0
    ELSE (IF is_dark_color(Head(clrs), 128) THEN 1 ELSE 0) + SumDark(Tail(clrs))

\* line 107 with >= in place of >: a palette that is half dark counts as dark
IsDarkPalette_Mutant(clrs) == 2 * SumDark(clrs) >= Len(clrs)

\* sum(...) > len(colors) / 2, a true division: 2 * sum > len.
IsDarkPalette(clrs) == 2 * SumDark(clrs) > Len(clrs)

ColorDescription(color) ==
    [rgb |-> color, hex |-> rgb_to_hex(color),
     brightness |-> get_color_brightness(color),
     is_dark |-> is_dark_color(color, 128)]

\* an analyser that guards the empty list and answers with an empty palette
get_brand_palette_info_Mutant(clrs) ==
    LET hex_colors == [k \in 1..Len(clrs) |-> rgb_to_hex(clrs[k])]
        primary_idx == PrimaryLoop(clrs, 0, 0, <<0, 1>>)
    IN  IF clrs = <<>>
        THEN Return([colors |-> <<>>, hex_colors |-> <<>>, is_dark_palette |-> FALSE,
                     color_descriptions |-> <<>>])
        ELSE Return([colors |-> clrs,
                     hex_colors |-> hex_colors,
                     primary_color |-> clrs[primary_idx + 1],
                     primary_hex |-> hex_colors[primary_idx + 1],
                     is_dark_palette |-> IsDarkPalette(clrs),
                     color_descriptions |->
                         [k \in 1..Len(clrs) |-> ColorDescription(clrs[k])]])

get_brand_palette_info(clrs) ==
    LET hex_colors == [k \in 1..Len(clrs) |-> rgb_to_hex(clrs[k])]
        primary_idx == PrimaryLoop(clrs, 0, 0, <<0, 1>>)
    IN  IF primary_idx >= Len(clrs)
        THEN Raise("IndexError")      \* colors[primary_idx] of an empty list
        ELSE Return([colors |-> clrs,
                     hex_colors |-> hex_colors,
                     primary_color |-> clrs[primary_idx + 1],
                     primary_hex |-> hex_colors[primary_idx + 1],
                     is_dark_palette |-> IsDarkPalette(clrs),
                     color_descriptions |->
                         [k \in 1..Len(clrs) |-> ColorDescription(clrs[k])]])

(***************************************************************************)
(* brand_extractor.py: extract_brand_info                                  *)
(*                                                                         *)
(* A PIL image is modelled by what the extractor gets out of it: whether   *)
(* its pixel data can be read, and the palette ColorThief reduces it to.   *)
(***************************************************************************)
Image(dominant) == [kind |-> "Image", readable |-> TRUE, dominant |-> dominant]
UnreadableImage == [kind |-> "Image", readable |-> FALSE, dominant |-> <<>>]

\* palette_utils.py lines 9-28.  image.convert / image.save load the pixel
\* data and raise on data that cannot be decoded.
extract_dominant_colors(image, num_colors) ==
    IF ~image.readable THEN Raise("OSError")
    ELSE IF num_colors = 1 THEN Return(<<image.dominant[1]>>)
    ELSE Return(Slice(image.dominant, num_colors))

\* set(lst)
SetOf(lst) == { lst[k] : k \in 1..Len(lst) }

\* list(a_set): the elements of the set in an order the language leaves to
\* the implementation; every order is an outcome.
RECURSIVE ListsOf(_)
ListsOf(S) ==
    IF S = {} THEN { <<>> }
    ELSE UNION { { <<x>> \o rest : rest \in ListsOf(S \ {x}) } : x \in S }

\* a default palette flagged dark
DefaultPalette_Mutant ==
    [hex_colors |-> <<"#667eea", "#764ba2", "#f093fb">>,
     primary_hex |-> "#667eea",
     is_dark_palette |-> TRUE]

\* lines 69-73
DefaultPalette ==
    [hex_colors |-> <<"#667eea", "#764ba2", "#f093fb">>,
     primary_hex |-> "#667eea",
     is_dark_palette |-> FALSE]

\* the merge without the cap [:5] of line 59
CombinedPalette_Mutant(order) == get_brand_palette_info(order)

\* lines 59-62, for one order of the set: the merged palette, or the error
CombinedPalette(order) == get_brand_palette_info(Slice(order, 5))

\* a choice that forgets the branch of lines 65-66: a product image alone
\* gets the default palette
ChooseBrandPalette_Mutant(has_logo, has_product, logo_palette, product_palette, combined) ==
    IF has_logo /\ has_product THEN combined
    ELSE IF has_logo THEN logo_palette
    ELSE Return(DefaultPalette)

\* lines 57-73: which palette becomes the brand palette; the four arguments
\* after the flags are outcomes of get_brand_palette_info
ChooseBrandPalette(has_logo, has_product, logo_palette, product_palette, combined) ==
    IF has_logo /\ has_product THEN combined
    ELSE IF has_logo THEN logo_palette
    ELSE IF has_product THEN product_palette
    ELSE Return(DefaultPalette)

\* The set of outcomes of extract_brand_info.  "" stands for a brand_name or
\* product_category that is None or empty; `or` treats both alike.
extract_brand_info(logo, product, name, category) ==
    LET has_logo == logo # None
        has_product == product # None
        info == [brand_name |-> IF name # "" THEN name ELSE "Brand",
                 product_category |-> IF category # "" THEN category ELSE "Product",
                 has_logo |-> has_logo,
                 has_product_image |-> has_product]
        logo_colors == IF has_logo THEN extract_dominant_colors(logo, 5) ELSE None
        logo_palette ==
            IF has_logo THEN get_brand_palette_info(logo_colors.value) ELSE None
        product_colors == IF has_product THEN extract_dominant_colors(product, 5) ELSE None
        product_palette ==
            IF has_product THEN get_brand_palette_info(product_colors.value) ELSE None
        with_logo ==
            IF has_logo
            THEN DictSet(DictSet(info, "logo_colors", logo_palette.value),
                         "primary_color", logo_palette.value.primary_hex)
            ELSE info
        with_product ==
            IF has_product
            THEN DictSet(with_logo, "product_colors", product_palette.value)
            ELSE with_logo
        orders ==
            IF has_logo /\ has_product
            THEN ListsOf(SetOf(Slice(logo_colors.value, 3) \o Slice(product_colors.value, 3)))
            ELSE { <<>> }
    IN  IF has_logo /\ logo_colors.kind = "raise" THEN { logo_colors }
        ELSE IF has_logo /\ logo_palette.kind = "raise" THEN { logo_palette }
        ELSE IF has_product /\ product_colors.kind = "raise" THEN { product_colors }
        ELSE IF has_product /\ product_palette.kind = "raise" THEN { product_palette }
        ELSE { LET brand_palette ==
                       ChooseBrandPalette(has_logo, has_product, logo_palette,
                                          product_palette, CombinedPalette(order))
               IN  IF brand_palette.kind = "raise" THEN brand_palette
                   ELSE Return(DictSet(with_product, "brand_palette", brand_palette.value)) :
               order \in orders }

(***************************************************************************)
(* context_engine.py: create_context_variations                            *)
(***************************************************************************)
\* lines 137-148
themes ==
    << "morning energy",
       "afternoon relaxation",
       "evening social",
       "weekend vibes",
       "festive celebration",
       "local culture",
       "weather-specific",
       "POI-focused",
       "lifestyle",
       "aspirational" >>

\* a cycle that never reaches the tenth theme
ThemeOf_Mutant(idx) == themes[(idx % (Len(themes) - 1)) + 1]

\* line 152: themes[i % len(themes)]
ThemeOf(idx) == themes[(idx % Len(themes)) + 1]

\* ids that start at 0
VariationId_Mutant(idx) == idx

\* line 153: i + 1
VariationId(idx) == idx + 1

\* a mood table whose weather-specific entry embeds the weather group
\* (weather.main) in place of the description
MoodOf_Mutant(theme, base) ==
    IF theme = "morning energy" THEN Return("energetic, fresh start, morning routine")
    ELSE IF theme = "afternoon relaxation" THEN Return("relaxed, leisure time, comfort")
    ELSE IF theme = "evening social" THEN Return("social, gathering, celebration")
    ELSE IF theme = "weekend vibes" THEN Return("fun, adventure, exploration")
    ELSE IF theme = "festive celebration" THEN Return("festive, joyful, celebration")
    ELSE IF theme = "local culture" THEN Return("cultural, traditional, local pride")
    ELSE IF theme = "weather-specific" THEN
        IF HasKey(base, "weather") /\ HasKey(base["weather"], "main")
        THEN Return("weather-aware, " \o base["weather"]["main"])
        ELSE Raise("KeyError")
    ELSE IF theme = "POI-focused" THEN Return("location-specific, local hotspots")
    ELSE IF theme = "lifestyle" THEN Return("lifestyle-focused, aspirational")
    ELSE Return("premium, aspirational, elevated")

\* lines 156-175: the mood of a theme; base_context['weather']['description']
\* raises KeyError when either key is missing.
MoodOf(theme, base) ==
    IF theme = "morning energy" THEN Return("energetic, fresh start, morning routine")
    ELSE IF theme = "afternoon relaxation" THEN Return("relaxed, leisure time, comfort")
    ELSE IF theme = "evening social" THEN Return("social, gathering, celebration")
    ELSE IF theme = "weekend vibes" THEN Return("fun, adventure, exploration")
    ELSE IF theme = "festive celebration" THEN Return("festive, joyful, celebration")
    ELSE IF theme = "local culture" THEN Return("cultural, traditional, local pride")
    ELSE IF theme = "weather-specific" THEN
        IF HasKey(base, "weather") /\ HasKey(base["weather"], "description")
        THEN Return("weather-aware, " \o base["weather"]["description"])
        ELSE Raise("KeyError")
    ELSE IF theme = "POI-focused" THEN Return("location-specific, local hotspots")
    ELSE IF theme = "lifestyle" THEN Return("lifestyle-focused, aspirational")
    ELSE Return("premium, aspirational, elevated")

\* lines 151-175: one pass of the loop body for counter idx, up to the append
NewVariation(base, idx) ==
    LET copied == base
        themed == DictSet(copied, "theme", ThemeOf(idx))
        numbered == DictSet(themed, "variation_id", VariationId(idx))
        mood == MoodOf(numbered["theme"], base)
    IN  IF mood.kind = "raise" THEN mood
        ELSE Return(DictSet(numbered, "mood", mood.value))

\* a pass that writes the three keys into the base context itself instead
\* of a copy: the list holds the same dict once more
LoopPass_Mutant(base, acc, idx) ==
    LET v == NewVariation(base, idx)
    IN  IF v.kind = "raise" THEN v
        ELSE Return([base_context |-> v.value,
                     variations |-> [k \in 1..(Len(acc) + 1) |-> v.value]])

\* lines 151-177: one pass of the loop as its effect on the dicts the call
\* holds.  The keys are written into base_context.copy(), a new dict, which
\* is appended; the base context and the dicts already in the list are not
\* written to.
LoopPass(base, acc, idx) ==
    LET v == NewVariation(base, idx)
    IN  IF v.kind = "raise" THEN v
        ELSE Return([base_context |-> base, variations |-> Append(acc, v.value)])

\* The whole call, for callers that use its result: the list, or the error.
RECURSIVE VariationsFrom(_, _, _, _)
VariationsFrom(base, n, idx, acc) ==
    IF idx >= n THEN Return(acc)
    ELSE LET v == NewVariation(base, idx)
         IN  IF v.kind = "raise" THEN v
             ELSE VariationsFrom(base, n, idx + 1, Append(acc, v.value))

create_context_variations(base, n) == VariationsFrom(base, n, 0, <<>>)

(***************************************************************************)
(* prompt_builder.py                                                       *)
(***************************************************************************)
\* d.get(k, default)
DictGet(d, k, default) == IF HasKey(d, k) THEN d[k] ELSE default

UpperCase == "ABCDEFGHIJKLMNOPQRSTUVWXYZ"
LowerCase == "abcdefghijklmnopqrstuvwxyz"

CharAt(str, k) == SubSeq(str, k, k)

LowerChar(ch) ==
    IF \E k \in 1..Len(UpperCase) : CharAt(UpperCase, k) = ch
    THEN CharAt(LowerCase, CHOOSE k \in 1..Len(UpperCase) : CharAt(UpperCase, k) = ch)
    ELSE ch

\* str.lower()
RECURSIVE Lower(_)
Lower(str) ==
    IF Len(str) = 0 THEN ""
    ELSE LowerChar(CharAt(str, 1)) \o Lower(SubSeq(str, 2, Len(str)))

\* sub in str
Contains(sub, str) ==
    \E k \in 1..(Len(str) - Len(sub) + 1) : SubSeq(str, k, k + Len(sub) - 1) = sub

\* a join that puts a blank between the parts whatever the separator
RECURSIVE Join_Mutant(_, _)
Join_Mutant(sep, parts) ==
    IF Len(parts) = 0 THEN ""
    ELSE IF Len(parts) = 1 THEN parts[1]
    ELSE parts[1] \o " " \o Join_Mutant(sep, Tail(parts))

\* sep.join(parts)
RECURSIVE Join(_, _)
Join(sep, parts) ==
    IF Len(parts) = 0 THEN ""
    ELSE IF Len(parts) = 1 THEN parts[1]
    ELSE parts[1] \o sep \o Join(sep, Tail(parts))

\* a style phrase whose category test looks for "food" before "beverage"
get_style_modifiers_FoodFirst(info, context) ==
    LET category == Lower(DictGet(info, "product_category", ""))
        weather == DictGet(context, "weather", <<>>)
        time_of_day == DictGet(context, "time_of_day", "")
        base ==
            IF Contains("food", category) THEN "appetizing, simple food visual"
            ELSE IF Contains("beverage", category) THEN "refreshing drink visual"
            ELSE IF Contains("skincare", category) \/ Contains("beauty", category)
                 THEN "clean, minimal beauty style"
            ELSE IF Contains("tech", category) THEN "modern, minimal tech style"
            ELSE "simple lifestyle aesthetic"
        main_weather == DictGet(weather, "main", "")
        from_weather ==
            IF DOMAIN weather = {} THEN ""
            ELSE IF main_weather = "Rain" THEN "cozy feel"
            ELSE IF main_weather = "Clear" THEN "bright feel"
            ELSE IF main_weather = "Clouds" THEN "soft light"
            ELSE ""
        extra ==
            IF from_weather # "" THEN from_weather
            ELSE IF time_of_day = "morning" THEN "morning light"
            ELSE IF time_of_day = "evening" THEN "warm evening light"
            ELSE IF time_of_day = "night" THEN "night-time glow"
            ELSE ""
    IN  IF extra # "" THEN base \o ", " \o extra ELSE base

\* a style phrase that prefers the time of day to the weather
get_style_modifiers_TimeFirst(info, context) ==
    LET category == Lower(DictGet(info, "product_category", ""))
        weather == DictGet(context, "weather", <<>>)
        time_of_day == DictGet(context, "time_of_day", "")
        base ==
            IF Contains("beverage", category) THEN "refreshing drink visual"
            ELSE IF Contains("skincare", category) \/ Contains("beauty", category)
                 THEN "clean, minimal beauty style"
            ELSE IF Contains("food", category) THEN "appetizing, simple food visual"
            ELSE IF Contains("tech", category) THEN "modern, minimal tech style"
            ELSE "simple lifestyle aesthetic"
        main_weather == DictGet(weather, "main", "")
        from_time ==
            IF time_of_day = "morning" THEN "morning light"
            ELSE IF time_of_day = "evening" THEN "warm evening light"
            ELSE IF time_of_day = "night" THEN "night-time glow"
            ELSE ""
        extra ==
            IF from_time # "" THEN from_time
            ELSE IF DOMAIN weather = {} THEN ""
            ELSE IF main_weather = "Rain" THEN "cozy feel"
            ELSE IF main_weather = "Clear" THEN "bright feel"
            ELSE IF main_weather = "Clouds" THEN "soft light"
            ELSE ""
    IN  IF extra # "" THEN base \o ", " \o extra ELSE base

\* lines 79-118
get_style_modifiers(info, context) ==
    LET category == Lower(DictGet(info, "product_category", ""))
        weather == DictGet(context, "weather", <<>>)
        time_of_day == DictGet(context, "time_of_day", "")
        base ==
            IF Contains("beverage", category) THEN "refreshing drink visual"
            ELSE IF Contains("skincare", category) \/ Contains("beauty", category)
                 THEN "clean, minimal beauty style"
            ELSE IF Contains("food", category) THEN "appetizing, simple food visual"
            ELSE IF Contains("tech", category) THEN "modern, minimal tech style"
            ELSE "simple lifestyle aesthetic"
        main_weather == DictGet(weather, "main", "")
        from_weather ==
            IF DOMAIN weather = {} THEN ""
            ELSE IF main_weather = "Rain" THEN "cozy feel"
            ELSE IF main_weather = "Clear" THEN "bright feel"
            ELSE IF main_weather = "Clouds" THEN "soft light"
            ELSE ""
        extra ==
            IF from_weather # "" THEN from_weather
            ELSE IF time_of_day = "morning" THEN "morning light"
            ELSE IF time_of_day = "evening" THEN "warm evening light"
            ELSE IF time_of_day = "night" THEN "night-time glow"
            ELSE ""
    IN  IF extra # "" THEN base \o ", " \o extra ELSE base

\* a builder that names the palette's primary_hex in the colour clause
build_prompt_Mutant(info, context) ==
    LET name == DictGet(info, "brand_name", "Brand")
        category == DictGet(info, "product_category", "product")
        city == DictGet(context, "city", "")
        theme == DictGet(context, "theme", "")
        mood == DictGet(context, "mood", "")
        brand_palette == DictGet(info, "brand_palette", <<>>)
        primary_color ==
            IF DOMAIN brand_palette = {} THEN ""
            ELSE DictGet(brand_palette, "primary_hex", "")
        style_phrase == get_style_modifiers(info, context)
        parts ==
            << IF city # ""
               THEN "Clean marketing poster for " \o name \o " " \o category \o " in " \o city
               ELSE "Clean marketing poster for " \o name \o " " \o category,
               "the product is the main hero in the center, with space for a logo" >>
            \o (IF theme # "" THEN << "inspired by " \o theme >> ELSE <<>>)
            \o (IF mood # "" THEN << "with a " \o mood \o " feel" >> ELSE <<>>)
            \o (IF primary_color # ""
                THEN << "using " \o primary_color \o " as the main brand color" >>
                ELSE <<>>)
            \o (IF style_phrase # "" THEN << style_phrase >> ELSE <<>>)
    IN  Join(", ", parts) \o ". High quality, clear composition, easy-to-read poster design"

\* lines 24-63; "" stands for a primary_color of None
build_prompt(info, context) ==
    LET name == DictGet(info, "brand_name", "Brand")
        category == DictGet(info, "product_category", "product")
        city == DictGet(context, "city", "")
        theme == DictGet(context, "theme", "")
        mood == DictGet(context, "mood", "")
        brand_palette == DictGet(info, "brand_palette", <<>>)
        hex_colors ==
            IF DOMAIN brand_palette = {} THEN <<>>
            ELSE DictGet(brand_palette, "hex_colors", <<>>)
        primary_color == IF Len(hex_colors) > 0 THEN hex_colors[1] ELSE ""
        style_phrase == get_style_modifiers(info, context)
        parts ==
            << IF city # ""
               THEN "Clean marketing poster for " \o name \o " " \o category \o " in " \o city
               ELSE "Clean marketing poster for " \o name \o " " \o category,
               "the product is the main hero in the center, with space for a logo" >>
            \o (IF theme # "" THEN << "inspired by " \o theme >> ELSE <<>>)
            \o (IF mood # "" THEN << "with a " \o mood \o " feel" >> ELSE <<>>)
            \o (IF primary_color # ""
                THEN << "using " \o primary_color \o " as the main brand color" >>
                ELSE <<>>)
            \o (IF style_phrase # "" THEN << style_phrase >> ELSE <<>>)
    IN  Join(", ", parts) \o ". High quality, clear composition, easy-to-read poster design"

\* a call that leaves its prompt in the context it was given
BuildPromptCall_Mutant(info, context) ==
    [prompt |-> build_prompt(info, context),
     brand_info |-> info,
     context |-> DictSet(context, "prompt", build_prompt(info, context))]

\* One call of build_prompt as its caller sees it: the string returned and
\* the two dicts after the call.  Lines 24-63 only read them.
BuildPromptCall(info, context) ==
    [prompt |-> build_prompt(info, context), brand_info |-> info, context |-> context]

\* lines 120-142
build_multiple_prompts(info, contexts) ==
    [k \in 1..Len(contexts) |-> build_prompt(info, contexts[k])]

(***************************************************************************)
(* caption_generator.py                                                    *)
(*                                                                         *)
(* A caption is its text.  The templates of lines 133-142 begin and end    *)
(* with characters outside ASCII; each such character is written "#", so   *)
(* that the length of a caption is the length Python counts.               *)
(***************************************************************************)
\* str.lstrip(chars) and str.rstrip(chars) for a set of characters
RECURSIVE LStrip(_, _)
LStrip(str, chars) ==
    IF Len(str) > 0 /\ SubSeq(str, 1, 1) \in chars
    THEN LStrip(SubSeq(str, 2, Len(str)), chars) ELSE str

RECURSIVE RStrip(_, _)
RStrip(str, chars) ==
    IF Len(str) > 0 /\ SubSeq(str, Len(str), Len(str)) \in chars
    THEN RStrip(SubSeq(str, 1, Len(str) - 1), chars) ELSE str

\* str.strip(chars)
StripChars(str, chars) == RStrip(LStrip(str, chars), chars)

\* str.strip(): blanks, tabs and line ends
Whitespace == {" ", "\t", "\n", "\r"}

\* caption.replace("**", "").replace("*", ""): after the first replacement
\* the second removes every star that is left, so no star remains
RECURSIVE RemoveStars(_)
RemoveStars(str) ==
    IF Len(str) = 0 THEN ""
    ELSE IF Len(str) = 1 THEN (IF str = "*" THEN "" ELSE str)
    ELSE RemoveStars(SubSeq(str, 1, Len(str) \div 2))
           \o RemoveStars(SubSeq(str, (Len(str) \div 2) + 1, Len(str)))

\* lines 152-164
clean_caption(caption) ==
    LET unquoted == StripChars(StripChars(caption, {"\""}), {"'"})
        plain == RemoveStars(unquoted)
    IN  IF Len(plain) >= 8 /\ Lower(SubSeq(plain, 1, 8)) = "caption:"
        THEN StripChars(SubSeq(plain, 9, Len(plain)), Whitespace)
        ELSE plain

\* caption[:n], n possibly negative
SliceTo(str, n) ==
    IF n >= 0 THEN SubSeq(str, 1, Min2(n, Len(str)))
    ELSE SubSeq(str, 1, Len(str) + n)

\* lines 125-150
generate_fallback_caption(info, context) ==
    LET name == DictGet(info, "brand_name", "Brand")
        category == DictGet(info, "product_category", "product")
        city == DictGet(context, "city", "your city")
        theme == DictGet(context, "theme", "lifestyle")
        templates ==
        << "### Experience " \o name \o " like never before! Perfect for " \o city \o "'s " \o theme \o ". Get yours today! ####",
           "#### " \o name \o " brings you the perfect " \o category \o " for every moment in " \o city \o ". Try it now! ####",
           "#### Elevate your " \o theme \o " with " \o name \o ". Made for " \o city \o ", made for you. Shop now! #####",
           "#### " \o name \o ": Where quality meets " \o theme \o ". Available now in " \o city \o "! ###",
           "### Transform your day with " \o name \o ". The perfect " \o category \o " for " \o city \o ". Order today! ####",
           "#### Discover the " \o name \o " difference. Crafted for " \o city \o "'s " \o theme \o ". Get it now! ###",
           "#### " \o name \o " - Your perfect companion for " \o city \o "'s " \o theme \o ". Don't miss out! ###",
           "#### Make every moment special with " \o name \o ". Now in " \o city \o "! Shop today! ###",
           "#### " \o name \o ": Premium " \o category \o " for " \o city \o "'s vibrant " \o theme \o ". Try it now! ####",
           "### Embrace the " \o name \o " experience. Perfect for " \o city \o ", perfect for you! ####" >>
        variation_id == DictGet(context, "variation_id", 1)
        template_idx == (variation_id - 1) % Len(templates)
    IN  templates[template_idx + 1]

\* What the model does when asked: generate_content or response.text raises,
\* or a text is returned.
ModelFailure(error) == [kind |-> "failure", error |-> error]
ModelReply(text) == [kind |-> "reply", text |-> text]

\* lines 18-56: the text generate_caption returns.  model is self.model (None
\* without a key, line 16); every exception of lines 41-52 is caught at line
\* 54.  The prompt of line 41 is built from .get reads and handed to the
\* model, whose answer is not a function of it.
generate_caption_text(model, info, context, max_length) ==
    IF model = None THEN Return(generate_fallback_caption(info, context))
    ELSE IF model.kind = "failure" THEN Return(generate_fallback_caption(info, context))
    ELSE LET caption == clean_caption(StripChars(model.text, Whitespace))
         IN  IF Len(caption) > max_length
             THEN Return(SliceTo(caption, max_length - 3) \o "...")
             ELSE Return(caption)

(***************************************************************************)
(* weather_service.py                                                      *)
(*                                                                         *)
(* datetime.now() is the variable clock, of which the code reads the month *)
(* and the hour.  A float the code only passes on (wind speed) is carried  *)
(* as its decimal text.                                                    *)
(***************************************************************************)
\* seasons by calendar quarter
get_season_Mutant(month) ==
    IF month \in {1, 2, 3} THEN "winter"
    ELSE IF month \in {4, 5, 6} THEN "spring"
    ELSE IF month \in {7, 8, 9} THEN "monsoon"
    ELSE "autumn"

\* lines 221-232
get_season(month) ==
    IF month \in {12, 1, 2} THEN "winter"
    ELSE IF month \in {3, 4, 5} THEN "spring"
    ELSE IF month \in {6, 7, 8} THEN "monsoon"
    ELSE "autumn"

\* bands closed at their upper end
get_time_of_day_Mutant(hour) ==
    IF 5 <= hour /\ hour <= 12 THEN "morning"
    ELSE IF 12 <= hour /\ hour <= 17 THEN "afternoon"
    ELSE IF 17 <= hour /\ hour <= 21 THEN "evening"
    ELSE "night"

\* lines 234-245
get_time_of_day(hour) ==
    IF 5 <= hour /\ hour < 12 THEN "morning"
    ELSE IF 12 <= hour /\ hour < 17 THEN "afternoon"
    ELSE IF 17 <= hour /\ hour < 21 THEN "evening"
    ELSE "night"

\* the keys of location_weather, lines 68-154
TableCities ==
    { "Bangalore", "Chennai", "Hyderabad", "Delhi", "Gurgaon", "Mumbai",
      "Pune", "Kolkata", "Los Angeles", "San Francisco", "New York", "London" }

\* the seasonal_data dict written for a city at lines 70-153
SeasonalData(name) ==
    IF name = "Bangalore" THEN
        [winter |-> [temp |-> 22, desc |-> "pleasant weather", main |-> "Clear"],
         spring |-> [temp |-> 28, desc |-> "warm and sunny", main |-> "Clear"],
         monsoon |-> [temp |-> 24, desc |-> "rainy", main |-> "Rain"],
         autumn |-> [temp |-> 25, desc |-> "pleasant", main |-> "Clouds"]]
    ELSE IF name = "Chennai" THEN
        [winter |-> [temp |-> 28, desc |-> "warm", main |-> "Clear"],
         spring |-> [temp |-> 35, desc |-> "hot and sunny", main |-> "Clear"],
         monsoon |-> [temp |-> 30, desc |-> "humid with rain", main |-> "Rain"],
         autumn |-> [temp |-> 32, desc |-> "hot", main |-> "Clear"]]
    ELSE IF name = "Hyderabad" THEN
        [winter |-> [temp |-> 24, desc |-> "pleasant", main |-> "Clear"],
         spring |-> [temp |-> 32, desc |-> "hot", main |-> "Clear"],
         monsoon |-> [temp |-> 26, desc |-> "rainy", main |-> "Rain"],
         autumn |-> [temp |-> 28, desc |-> "warm", main |-> "Clouds"]]
    ELSE IF name = "Delhi" THEN
        [winter |-> [temp |-> 15, desc |-> "cold", main |-> "Clouds"],
         spring |-> [temp |-> 30, desc |-> "hot", main |-> "Clear"],
         monsoon |-> [temp |-> 32, desc |-> "humid with rain", main |-> "Rain"],
         autumn |-> [temp |-> 28, desc |-> "pleasant", main |-> "Clear"]]
    ELSE IF name = "Gurgaon" THEN
        [winter |-> [temp |-> 14, desc |-> "cold", main |-> "Clouds"],
         spring |-> [temp |-> 31, desc |-> "hot", main |-> "Clear"],
         monsoon |-> [temp |-> 33, desc |-> "humid", main |-> "Rain"],
         autumn |-> [temp |-> 27, desc |-> "pleasant", main |-> "Clear"]]
    ELSE IF name = "Mumbai" THEN
        [winter |-> [temp |-> 26, desc |-> "pleasant", main |-> "Clear"],
         spring |-> [temp |-> 32, desc |-> "hot and humid", main |-> "Clear"],
         monsoon |-> [temp |-> 28, desc |-> "heavy rain", main |-> "Rain"],
         autumn |-> [temp |-> 30, desc |-> "humid", main |-> "Clouds"]]
    ELSE IF name = "Pune" THEN
        [winter |-> [temp |-> 20, desc |-> "cool", main |-> "Clear"],
         spring |-> [temp |-> 30, desc |-> "warm", main |-> "Clear"],
         monsoon |-> [temp |-> 24, desc |-> "rainy", main |-> "Rain"],
         autumn |-> [temp |-> 26, desc |-> "pleasant", main |-> "Clouds"]]
    ELSE IF name = "Kolkata" THEN
        [winter |-> [temp |-> 22, desc |-> "pleasant", main |-> "Clear"],
         spring |-> [temp |-> 34, desc |-> "hot and humid", main |-> "Clear"],
         monsoon |-> [temp |-> 30, desc |-> "heavy rain", main |-> "Rain"],
         autumn |-> [temp |-> 28, desc |-> "humid", main |-> "Clouds"]]
    ELSE IF name = "Los Angeles" THEN
        [winter |-> [temp |-> 18, desc |-> "mild", main |-> "Clear"],
         spring |-> [temp |-> 22, desc |-> "pleasant", main |-> "Clear"],
         monsoon |-> [temp |-> 28, desc |-> "warm and sunny", main |-> "Clear"],
         autumn |-> [temp |-> 24, desc |-> "pleasant", main |-> "Clear"]]
    ELSE IF name = "San Francisco" THEN
        [winter |-> [temp |-> 14, desc |-> "cool and foggy", main |-> "Clouds"],
         spring |-> [temp |-> 18, desc |-> "mild", main |-> "Clouds"],
         monsoon |-> [temp |-> 20, desc |-> "cool", main |-> "Clouds"],
         autumn |-> [temp |-> 19, desc |-> "mild", main |-> "Clouds"]]
    ELSE IF name = "New York" THEN
        [winter |-> [temp |-> 2, desc |-> "cold", main |-> "Snow"],
         spring |-> [temp |-> 18, desc |-> "mild", main |-> "Clear"],
         monsoon |-> [temp |-> 28, desc |-> "hot and humid", main |-> "Clear"],
         autumn |-> [temp |-> 16, desc |-> "cool", main |-> "Clouds"]]
    ELSE IF name = "London" THEN
        [winter |-> [temp |-> 8, desc |-> "cold and rainy", main |-> "Rain"],
         spring |-> [temp |-> 14, desc |-> "mild", main |-> "Clouds"],
         monsoon |-> [temp |-> 20, desc |-> "pleasant", main |-> "Clouds"],
         autumn |-> [temp |-> 12, desc |-> "cool and rainy", main |-> "Rain"]]
    ELSE <<>>

\* a lookup that ignores the season
get_seasonal_weather_Mutant(season, seasonal_data) == DictGet(seasonal_data, "spring", <<>>)

\* lines 176-178: seasonal_data.get(season, seasonal_data.get("spring", {}))
get_seasonal_weather(season, seasonal_data) ==
    DictGet(seasonal_data, season, DictGet(seasonal_data, "spring", <<>>))

\* lines 163-174
MockWeather(city, temp, desc, main) ==
    [city |-> city, temperature |-> temp, feels_like |-> temp, humidity |-> 65,
     description |-> desc, main |-> main, icon |-> "01d", wind_speed |-> "3.5",
     clouds |-> 20, source |-> "location_based_mock"]

\* lines 59-174; now is what datetime.now() returns inside get_season
get_location_based_weather(city, now) ==
    LET season == get_season(now.month)
        weather ==
            IF city \in TableCities
            THEN get_seasonal_weather(season, SeasonalData(city))
            ELSE [temp |-> 25, desc |-> "pleasant", main |-> "Clear"]
    IN  MockWeather(city, weather.temp, weather.desc, weather.main)

\* What the live source does when called: requests.get raises, or
\* raise_for_status raises, or response.json() raises, or a body is parsed.
LiveFailure(error) == [kind |-> "failure", error |-> error]
LiveReply(data) == [kind |-> "reply", data |-> data]

\* the body of a complete reply of the live source
LiveData(temp, desc, main) ==
    [main |-> [temp |-> temp, feels_like |-> temp - 1, humidity |-> 70],
     weather |-> << [description |-> desc, main |-> main, icon |-> "10d"] >>,
     wind |-> [speed |-> "4.1"],
     clouds |-> [all |-> 75]]

\* lines 41-52: the record built from the reply; a missing key raises
\* KeyError and an empty weather list IndexError
RealWeather(city, data) ==
    IF ~(HasKey(data, "main") /\ HasKey(data["main"], "temp")
           /\ HasKey(data["main"], "feels_like") /\ HasKey(data["main"], "humidity")
           /\ HasKey(data, "weather"))
    THEN Raise("KeyError")
    ELSE IF Len(data["weather"]) = 0 THEN Raise("IndexError")
    ELSE IF ~(HasKey(data["weather"][1], "description") /\ HasKey(data["weather"][1], "main")
                /\ HasKey(data["weather"][1], "icon")
                /\ HasKey(data, "wind") /\ HasKey(data["wind"], "speed")
                /\ HasKey(data, "clouds") /\ HasKey(data["clouds"], "all"))
    THEN Raise("KeyError")
    ELSE Return([city |-> city,
                 temperature |-> data["main"]["temp"],
                 feels_like |-> data["main"]["feels_like"],
                 humidity |-> data["main"]["humidity"],
                 description |-> data["weather"][1]["description"],
                 main |-> data["weather"][1]["main"],
                 icon |-> data["weather"][1]["icon"],
                 wind_speed |-> data["wind"]["speed"],
                 clouds |-> data["clouds"]["all"],
                 source |-> "real_api"])

\* line 28: whether the live source is tried
LiveConfigured(api_key) == api_key # "" /\ api_key # "your_weather_api_key_here"

\* a get_weather without the except clause of line 53
get_weather_Mutant(city, api_key, live, now) ==
    LET real == IF live.kind = "reply" THEN RealWeather(city, live.data)
                ELSE Raise(live.error)
    IN  IF LiveConfigured(api_key) THEN real
        ELSE Return(get_location_based_weather(city, now))

\* lines 15-57
get_weather(city, api_key, live, now) ==
    LET real == IF live.kind = "reply" THEN RealWeather(city, live.data)
                ELSE Raise(live.error)
    IN  IF LiveConfigured(api_key) /\ real.kind = "return"
        THEN Return(real.value)
        ELSE Return(get_location_based_weather(city, now))   \* line 57

\* thresholds that take the value on the threshold into the upper band
TemperatureClause_Mutant(temp) ==
    IF temp >= 35 THEN ", extremely hot weather - perfect for cooling products"
    ELSE IF temp >= 30 THEN ", hot and sunny conditions - ideal for refreshing products"
    ELSE IF temp >= 25 THEN ", warm and pleasant conditions - great for outdoor activities"
    ELSE IF temp >= 20 THEN ", comfortable weather - perfect for all activities"
    ELSE IF temp >= 15 THEN ", cool weather - good for warm products"
    ELSE ", cold weather - ideal for warming products"

\* lines 198-209
TemperatureClause(temp) ==
    IF temp > 35 THEN ", extremely hot weather - perfect for cooling products"
    ELSE IF temp > 30 THEN ", hot and sunny conditions - ideal for refreshing products"
    ELSE IF temp > 25 THEN ", warm and pleasant conditions - great for outdoor activities"
    ELSE IF temp > 20 THEN ", comfortable weather - perfect for all activities"
    ELSE IF temp > 15 THEN ", cool weather - good for warm products"
    ELSE ", cold weather - ideal for warming products"

\* lines 212-217
SkyClause(desc, main) ==
    IF Contains("rain", Lower(desc)) \/ main = "Rain"
    THEN ". Rainy conditions - focus on indoor comfort and convenience"
    ELSE IF Contains("cloud", Lower(desc)) \/ main = "Clouds"
    THEN ". Cloudy skies - versatile conditions"
    ELSE IF Contains("clear", Lower(desc)) \/ main = "Clear"
    THEN ". Clear skies - perfect for outdoor messaging"
    ELSE ""

\* lines 180-219.  The degree sign of line 195 is written "deg" here.
get_weather_context(weather_data) ==
    IF ~(HasKey(weather_data, "temperature") /\ HasKey(weather_data, "description")
           /\ HasKey(weather_data, "main") /\ HasKey(weather_data, "city"))
    THEN Raise("KeyError")
    ELSE LET temp == weather_data["temperature"]
             desc == weather_data["description"]
             main == weather_data["main"]
             city == weather_data["city"]
         IN  Return(city \o " is experiencing " \o desc \o " with " \o ToString(temp)
                      \o "degC temperature"
                      \o TemperatureClause(temp) \o SkyClause(desc, main))

(***************************************************************************)
(* context_engine.py: get_context                                          *)
(*                                                                         *)
(* The e-acute of lines 91, 96 and 112 is written e.  "" stands for a      *)
(* product_category of None.                                               *)
(***************************************************************************)
\* lines 67-75
poi_data ==
    [Bangalore |-> <<"cafes", "tech parks", "gardens", "breweries", "malls">>,
     Chennai |-> <<"beaches", "temples", "marina", "shopping districts">>,
     Mumbai |-> <<"marine drive", "malls", "beaches", "street markets">>,
     Delhi |-> <<"monuments", "markets", "malls", "restaurants", "historical sites">>,
     Hyderabad |-> <<"tech hubs", "biryani spots", "lakes", "monuments">>,
     Pune |-> <<"colleges", "cafes", "hills", "restaurants">>,
     Kolkata |-> <<"cultural centers", "markets", "sweets shops", "heritage sites">>]

\* lines 65-77
get_pois(city) ==
    DictGet(poi_data, city, <<"local attractions", "shopping areas", "restaurants">>)

\* lines 82-87
festivals ==
    [winter |-> <<"Christmas", "New Year", "Pongal", "Makar Sankranti">>,
     spring |-> <<"Holi", "Ugadi", "Gudi Padwa">>,
     monsoon |-> <<"Raksha Bandhan", "Independence Day", "Onam">>,
     autumn |-> <<"Diwali", "Durga Puja", "Dussehra", "Navratri">>]

\* lines 90-98
city_culture ==
    [Bangalore |-> "tech-savvy, cafe culture, cosmopolitan vibes",
     Chennai |-> "traditional, coastal culture, filter coffee culture",
     Mumbai |-> "fast-paced, bollywood, street food culture",
     Delhi |-> "historical, diverse cuisine, shopping culture",
     Hyderabad |-> "biryani culture, tech hub, historical heritage",
     Pune |-> "educational hub, young crowd, cafe culture",
     Kolkata |-> "artistic, literary, sweet culture, cultural festivals"]

\* lines 79-107
get_cultural_context(city, season) ==
    LET season_festivals == DictGet(festivals, season, <<>>)
        city_vibe == DictGet(city_culture, city, "vibrant local culture")
        context == city \o " culture: " \o city_vibe \o ". "
    IN  IF Len(season_festivals) > 0
        THEN context \o "Upcoming festivals: " \o Join(", ", Slice(season_festivals, 2)) \o "."
        ELSE context

\* lines 111-119
vibes ==
    [Bangalore |-> "Bangalore monsoon vibes, tech-savvy millennials, cafe hoppers",
     Chennai |-> "Chennai coastal vibes, traditional yet modern, beach lovers",
     Mumbai |-> "Mumbai hustle, bollywood dreams, street food enthusiasts",
     Delhi |-> "Delhi nightlife, historical charm, food explorers",
     Hyderabad |-> "Hyderabad heritage, biryani lovers, tech professionals",
     Pune |-> "Pune student life, young energy, weekend adventurers",
     Kolkata |-> "Kolkata artistic soul, cultural enthusiasts, sweet lovers"]

\* lines 109-121
get_local_vibes(city) == DictGet(vibes, city, city \o " local vibes and culture")

\* `if custom_context:` of line 60: neither None nor an empty dict
Truthy(d) == d # None /\ DOMAIN d # {}

\* lines 38-63, once weather, season and time of day are known; timestamp is
\* what datetime.now() returns at line 57
AssembleContext(city, category, custom_context, weather_data, weather_context, season, tod, timestamp) ==
    LET context ==
            [city |-> city,
             weather |-> weather_data,
             weather_context |-> weather_context,
             season |-> season,
             time_of_day |-> tod,
             pois |-> get_pois(city),
             cultural_context |-> get_cultural_context(city, season),
             local_vibes |-> get_local_vibes(city),
             product_category |-> category,
             timestamp |-> timestamp]
    IN  IF Truthy(custom_context) THEN DictUpdate(context, custom_context) ELSE context

(***************************************************************************)
(* main.py: generate_creatives and what it calls                           *)
(***************************************************************************)
\* An uploaded file holds an image or bytes that are no image.
Upload(content) == [kind |-> "Upload", content |-> content]
NotAnImage == [kind |-> "Bytes"]

\* Image.open(io.BytesIO(content)), lines 100 and 104: PIL raises when it
\* cannot identify an image in the bytes.
ImageOpen(content) ==
    IF content.kind = "Image" THEN Return(content) ELSE Raise("UnidentifiedImageError")

\* an image service that answers None when the call fails
generate_image_Mutant(prompt, api) ==
    IF api = "ok"
    THEN [kind |-> "Image", readable |-> TRUE, origin |-> "dall-e", prompt |-> prompt,
          logo |-> FALSE]
    ELSE None

\* dalle_service.py lines 40-66: the downloaded image, or the placeholder
\* when there is no key or the call fails; never None.
generate_image(prompt, api) ==
    IF api = "ok"
    THEN [kind |-> "Image", readable |-> TRUE, origin |-> "dall-e", prompt |-> prompt,
          logo |-> FALSE]
    ELSE [kind |-> "Image", readable |-> TRUE, origin |-> "placeholder", prompt |-> prompt,
          logo |-> FALSE]

\* image_utils.py lines 27-60: the background with the logo pasted on it
create_composite(background, logo) ==
    IF logo # None THEN [background EXCEPT !.logo = TRUE] ELSE background

\* caption_generator.py lines 37-56 and 125-150: the reply of the model, or
\* the template chosen by variation_id when there is no model or it fails
generate_caption(info, context, api) ==
    IF api = "ok"
    THEN [source |-> "model", variation_id |-> DictGet(context, "variation_id", 1)]
    ELSE [source |-> "template",
          template_idx |-> (DictGet(context, "variation_id", 1) - 1) % 10,
          variation_id |-> DictGet(context, "variation_id", 1)]

\* line 155: f"creative_{idx+1:02d}.png" in the output directory
ImagePath(idx) ==
    "output/creative_" \o (IF idx + 1 < 10 THEN "0" ELSE "")
        \o ToString(idx + 1) \o ".png"

\* line 186
HTTPException(status_code, detail) ==
    [kind |-> "HTTPException", status_code |-> status_code, detail |-> detail]

\* lines 170-183: the ZIP package sent back
FileResponse(images, texts, metadata) ==
    [kind |-> "FileResponse", status_code |-> 200, images |-> images,
     captions |-> texts, metadata |-> metadata]

(***************************************************************************)
(* The base contexts the model draws from: the dict get_context builds     *)
(* (lines 47-58) for a city of the tables and one outside them, with mock  *)
(* weather records of three seasons, and the same dict after the merge of  *)
(* a custom_context (lines 60-61) that carries the keys the expansion      *)
(* writes.                                                                 *)
(***************************************************************************)
SampleWeather ==
    { <<"Bangalore", MockWeather("Bangalore", 24, "rainy", "Rain"), "monsoon">>,
      <<"Bangalore", MockWeather("Bangalore", 22, "pleasant weather", "Clear"), "winter">>,
      <<"Delhi", MockWeather("Delhi", 15, "cold", "Clouds"), "winter">>,
      <<"Springfield", MockWeather("Springfield", 25, "pleasant", "Clear"), "autumn">> }

PlainContext(w, tod, category) ==
    [city |-> w[1], weather |-> w[2], season |-> w[3], time_of_day |-> tod,
     product_category |-> category]

CallerKeys == [theme |-> "caller theme", mood |-> "caller mood", variation_id |-> 99]

SampleContexts ==
    LET plain == { PlainContext(w, tod, "beverage") :
                       w \in SampleWeather, tod \in {"morning", "afternoon"} }
    IN  plain \cup { DictUpdate(c, CallerKeys) : c \in plain }

(***************************************************************************)
(* What the weather service is run with: every reading of the clock, the   *)
(* cities of the table and two outside it, no key, the placeholder key and *)
(* a key, and a live source that fails, answers with a body that lacks a   *)
(* field, or answers with a complete body.  The temperatures of complete   *)
(* bodies sit on and next to the thresholds of get_weather_context.        *)
(***************************************************************************)
Clocks == [month : 1..12, hour : 0..23]

Cities == TableCities \cup {"Springfield", "Zurich"}

ApiKeys == {"", "your_weather_api_key_here", "k3y"}

LiveFailures ==
    { LiveFailure("ConnectionError"), LiveFailure("Timeout"),
      LiveFailure("HTTPError"), LiveFailure("JSONDecodeError") }

\* bodies without the wind entry, with an empty weather list, without main.temp
IncompleteReplies ==
    LET full == LiveData(27, "scattered clouds", "Clouds")
    IN  { LiveReply([k \in {"main", "weather", "clouds"} |-> full[k]]),
          LiveReply([full EXCEPT !.weather = <<>>]),
          LiveReply([full EXCEPT !.main = [feels_like |-> 26, humidity |-> 70]]) }

LiveTemperatures == {-3, 14, 15, 16, 20, 21, 25, 26, 30, 31, 35, 36}

LiveSkies ==
    { <<"light rain", "Rain">>, <<"overcast clouds", "Clouds">>, <<"clear sky", "Clear">>,
      <<"mist", "Mist">>, <<"Clear after rain", "Clouds">>, <<"broken clouds", "Clear">>,
      <<"clear sky", "Drizzle">> }

CompleteReplies ==
    { LiveReply(LiveData(t, sky[1], sky[2])) : t \in LiveTemperatures, sky \in LiveSkies }

(***************************************************************************)
(* The colours the model draws from: black, mid grey, white, two fully     *)
(* saturated colours, the first default brand colour, two colours whose    *)
(* exact brightness is 128 (the double sum of the first falls below 128,   *)
(* that of the second is 128.0), and two colours of saturation 1/2.        *)
(***************************************************************************)
SampleColors ==
    { <<0, 0, 0>>, <<128, 128, 128>>, <<255, 255, 255>>,
      <<255, 0, 0>>, <<0, 0, 255>>, <<102, 126, 234>>,
      <<8, 200, 72>>, <<4, 210, 31>>, <<200, 100, 100>>, <<100, 50, 50>> }

SeqsUpTo(S, n) == UNION { [1..k -> S] : k \in 0..n }

\* The colours logos and product images reduce to.  The two sets share one
\* colour, and three logo colours with three other product colours make a
\* union of six.
LogoColors == { <<255, 0, 0>>, <<128, 128, 128>>, <<102, 126, 234>> }
ProductColors == { <<102, 126, 234>>, <<0, 0, 255>>, <<200, 100, 100>>, <<0, 0, 0>> }

IsInjective(lst) == \A j, k \in 1..Len(lst) : lst[j] = lst[k] => j = k

\* The images over a set of colours.  ColorThief yields at least one colour.
\* Its palette entries are the averages of different boxes of the colour
\* space; two boxes can average to the same colour, which the lists of two
\* equal colours stand for.
ImagesOver(S) ==
    { Image(d) : d \in { l \in SeqsUpTo(S, MaxColors) :
                            /\ l # <<>>
                            /\ IsInjective(l) \/ (Len(l) = 2 /\ l[1] = l[2]) } }

(***************************************************************************)
(* The palette analyser applied to every colour list within the bounds.    *)
(***************************************************************************)
IdleExpand ==
    /\ given_context = None
    /\ base_context = None
    /\ num_variations = 0
    /\ i = 0
    /\ variations = <<>>
    /\ expand_pc = "idle"

IdleBrand ==
    /\ logo_image = None
    /\ product_image = None
    /\ brand_name = ""
    /\ product_category = ""
    /\ brand_result = Pending

IdlePipeline ==
    /\ request = None
    /\ pipeline_pc = "idle"
    /\ logo_img = None
    /\ product_img = None
    /\ brand_info = None
    /\ context_variations = <<>>
    /\ prompts = <<>>
    /\ image_idx = 0
    /\ generated_images = <<>>
    /\ captions = <<>>
    /\ response = Pending

IdlePalette ==
    /\ colors = <<>>
    /\ palette_result = Pending

IdleWeather ==
    /\ clock = None
    /\ ws_api_key = ""
    /\ ws_live = None
    /\ ws_city = ""
    /\ ws_requests = 0
    /\ weather_result = Pending
    /\ sentence_result = Pending
    /\ season_result = Pending
    /\ time_of_day_result = Pending

IdleContext ==
    /\ ctx_args = None
    /\ ctx_pc = "idle"
    /\ ctx_weather_data = None
    /\ ctx_weather_context = ""
    /\ ctx_season = ""
    /\ ctx_time_of_day = ""
    /\ ctx_result = Pending
    /\ ticks = 0

IdlePrompt ==
    /\ pb_given = None
    /\ pb_brand_info = None
    /\ pb_context = None
    /\ pb_prompts = <<>>

\* the components a specification leaves alone
IdleStyle ==
    /\ style_args = None
    /\ style_result = Pending

IdleHex ==
    /\ hex_start = None
    /\ hex_mid = Pending
    /\ hex_back = Pending

IdleCaption ==
    /\ cap_args = None
    /\ cap_model = None
    /\ cap_result = Pending

IdleUtil == IdleStyle /\ IdleHex /\ IdleCaption

IdleServices == IdleWeather /\ IdleContext /\ IdlePrompt /\ IdleUtil

InitPalette ==
    /\ colors \in SeqsUpTo(SampleColors, MaxColors)
    /\ palette_result = Pending
    /\ IdleExpand
    /\ IdleBrand
    /\ IdlePipeline
    /\ IdleServices

Analyze ==
    /\ palette_result = Pending
    /\ palette_result' = get_brand_palette_info(colors)
    /\ UNCHANGED <<colors, expandVars, brandVars, pipelineVars,
                   weatherVars, contextVars, promptVars, utilVars>>

NextPalette == Analyze

SpecPalette == InitPalette /\ [][NextPalette]_vars

(***************************************************************************)
(* create_context_variations run one loop pass at a time.                  *)
(***************************************************************************)
InitExpand ==
    /\ given_context \in SampleContexts
    /\ base_context = given_context
    /\ num_variations \in 0..MaxVariations
    /\ i = 0
    /\ variations = <<>>                 \* line 134
    /\ expand_pc = "loop"
    /\ IdlePalette
    /\ IdleBrand
    /\ IdlePipeline
    /\ IdleServices

\* one pass of the loop of lines 150-177
ExpandPass ==
    /\ expand_pc = "loop"
    /\ i < num_variations
    /\ LET pass == LoopPass(base_context, variations, i)
       IN  IF pass.kind = "raise"
           THEN /\ expand_pc' = "raised"
                /\ UNCHANGED <<base_context, i, variations>>
           ELSE /\ variations' = pass.value.variations
                /\ base_context' = pass.value.base_context
                /\ i' = i + 1
                /\ UNCHANGED expand_pc
    /\ UNCHANGED <<given_context, num_variations, paletteVars, brandVars, pipelineVars,
                   weatherVars, contextVars, promptVars, utilVars>>

\* line 179
ExpandReturn ==
    /\ expand_pc = "loop"
    /\ i >= num_variations
    /\ expand_pc' = "returned"
    /\ UNCHANGED <<given_context, base_context, num_variations, i, variations,
                   paletteVars, brandVars, pipelineVars,
                   weatherVars, contextVars, promptVars, utilVars>>

NextExpand == ExpandPass \/ ExpandReturn

SpecExpand == InitExpand /\ [][NextExpand]_vars

(***************************************************************************)
(* create_context_variations applied to what get_context returns.          *)
(*                                                                         *)
(* The base contexts are the dicts get_context returns for a city of the   *)
(* tables and one outside them at two readings of the clock with the mock  *)
(* weather: without overrides, with an override that adds a key, with an   *)
(* override that replaces the weather by a complete record, by a record    *)
(* without a description, and by an empty dict.                            *)
(***************************************************************************)
WeatherOverrides ==
    { [weather |-> [main |-> "Snow", description |-> "snowfall"]],
      [weather |-> [main |-> "Rain"]],
      [weather |-> <<>>] }

ReturnedContexts ==
    { LET weather_data == get_location_based_weather(city, now)
      IN  AssembleContext(city, "beverage", custom_context, weather_data,
                          get_weather_context(weather_data).value,
                          get_season(now.month), get_time_of_day(now.hour), now) :
          city \in {"Bangalore", "Springfield"},
          now \in {[month |-> 7, hour |-> 9], [month |-> 1, hour |-> 18]},
          custom_context \in {None, [campaign |-> "launch"]} \cup WeatherOverrides }

InitOverrides ==
    /\ given_context \in ReturnedContexts
    /\ base_context = given_context
    /\ num_variations \in 1..MaxVariations
    /\ i = 0
    /\ variations = <<>>
    /\ expand_pc = "loop"
    /\ IdlePalette
    /\ IdleBrand
    /\ IdlePipeline
    /\ IdleServices

NextOverrides == ExpandPass \/ ExpandReturn

SpecOverrides == InitOverrides /\ [][NextOverrides]_vars

(***************************************************************************)
(* extract_brand_info called with every combination of absent, readable    *)
(* and unreadable images.                                                  *)
(***************************************************************************)
InitBrand ==
    /\ logo_image \in {None, UnreadableImage} \cup ImagesOver(LogoColors)
    /\ product_image \in {None, UnreadableImage} \cup ImagesOver(ProductColors)
    /\ \E args \in { <<"", "">>, <<"Acme", "beverage">> } :
           /\ brand_name = args[1]
           /\ product_category = args[2]
    /\ brand_result = Pending
    /\ IdlePalette
    /\ IdleExpand
    /\ IdlePipeline
    /\ IdleServices

ExtractBrandInfo ==
    /\ brand_result = Pending
    /\ brand_result' \in
           extract_brand_info(logo_image, product_image, brand_name, product_category)
    /\ UNCHANGED <<logo_image, product_image, brand_name, product_category,
                   paletteVars, expandVars, pipelineVars,
                   weatherVars, contextVars, promptVars, utilVars>>

NextBrand == ExtractBrandInfo

SpecBrand == InitBrand /\ [][NextBrand]_vars

(***************************************************************************)
(* get_season and get_time_of_day at every reading of the clock.           *)
(***************************************************************************)
InitClock ==
    /\ clock \in Clocks
    /\ ws_api_key = ""
    /\ ws_live = None
    /\ ws_city = ""
    /\ ws_requests = 0
    /\ weather_result = Pending
    /\ sentence_result = Pending
    /\ season_result = Pending
    /\ time_of_day_result = Pending
    /\ IdlePalette
    /\ IdleExpand
    /\ IdleBrand
    /\ IdlePipeline
    /\ IdleContext
    /\ IdlePrompt
    /\ IdleUtil

GetSeason ==
    /\ season_result = Pending
    /\ season_result' = Return(get_season(clock.month))
    /\ UNCHANGED <<clock, ws_api_key, ws_live, ws_city, ws_requests, weather_result,
                   sentence_result, time_of_day_result, paletteVars, expandVars,
                   brandVars, pipelineVars, contextVars, promptVars, utilVars>>

GetTimeOfDay ==
    /\ time_of_day_result = Pending
    /\ time_of_day_result' = Return(get_time_of_day(clock.hour))
    /\ UNCHANGED <<clock, ws_api_key, ws_live, ws_city, ws_requests, weather_result,
                   sentence_result, season_result, paletteVars, expandVars,
                   brandVars, pipelineVars, contextVars, promptVars, utilVars>>

NextClock == GetSeason \/ GetTimeOfDay

SpecClock == InitClock /\ [][NextClock]_vars

(***************************************************************************)
(* get_weather for a city, then get_weather_context on its record.         *)
(***************************************************************************)
InitWeather ==
    /\ clock \in [month : 1..12, hour : {9}]
    /\ ws_city \in Cities
    /\ ws_api_key \in ApiKeys
    /\ ws_live \in LiveFailures \cup IncompleteReplies \cup CompleteReplies
    /\ ws_live \in CompleteReplies =>
           /\ ws_api_key = "k3y"
           /\ ws_city \in {"Bangalore", "Zurich"}
           /\ clock.month = 7
    /\ ws_requests = 0
    /\ weather_result = Pending
    /\ sentence_result = Pending
    /\ season_result = Pending
    /\ time_of_day_result = Pending
    /\ IdlePalette
    /\ IdleExpand
    /\ IdleBrand
    /\ IdlePipeline
    /\ IdleContext
    /\ IdlePrompt
    /\ IdleUtil

\* lines 15-57; requests.get is called once when the key passes line 28
GetWeather ==
    /\ weather_result = Pending
    /\ weather_result' = get_weather(ws_city, ws_api_key, ws_live, clock)
    /\ ws_requests' = IF LiveConfigured(ws_api_key) THEN ws_requests + 1 ELSE ws_requests
    /\ UNCHANGED <<clock, ws_api_key, ws_live, ws_city, sentence_result, season_result,
                   time_of_day_result, paletteVars, expandVars, brandVars, pipelineVars,
                   contextVars, promptVars, utilVars>>

\* lines 180-219 on the record get_weather returned
GetWeatherContext ==
    /\ weather_result # Pending
    /\ weather_result.kind = "return"
    /\ sentence_result = Pending
    /\ sentence_result' = get_weather_context(weather_result.value)
    /\ UNCHANGED <<clock, ws_api_key, ws_live, ws_city, ws_requests, weather_result,
                   season_result, time_of_day_result, paletteVars, expandVars, brandVars,
                   pipelineVars, contextVars, promptVars, utilVars>>

NextWeather == GetWeather \/ GetWeatherContext

SpecWeather == InitWeather /\ [][NextWeather]_vars

(***************************************************************************)
(* One call of get_context, a read of the clock at a time.  The clock may  *)
(* advance between the reads.                                              *)
(***************************************************************************)
\* a city of every table, a city of the weather table only, a city of none
ContextCities == {"Bangalore", "London", "Springfield"}

\* no overrides, an empty mapping, a new key, a computed key with a new key,
\* and computed keys alone
CustomContexts ==
    { None, <<>>,
      [campaign |-> "launch"],
      [season |-> "festive", campaign |-> "launch"],
      [city |-> "Mysore", weather |-> [main |-> "Snow", description |-> "snowfall"]] }

InitContext ==
    /\ ctx_args \in [city : ContextCities, product_category : {"beverage", ""},
                     custom_context : CustomContexts]
    /\ ctx_pc = "get_weather"
    /\ ctx_weather_data = None
    /\ ctx_weather_context = ""
    /\ ctx_season = ""
    /\ ctx_time_of_day = ""
    /\ ctx_result = Pending
    /\ ticks = 0
    /\ clock \in [month : 1..12, hour : {4, 23}]
    /\ ws_api_key \in {"", "k3y"}
    /\ ws_live \in {LiveFailure("Timeout"), LiveReply(LiveData(31, "light rain", "Rain"))}
    /\ ws_city = ""
    /\ ws_requests = 0
    /\ weather_result = Pending
    /\ sentence_result = Pending
    /\ season_result = Pending
    /\ time_of_day_result = Pending
    /\ IdlePalette
    /\ IdleExpand
    /\ IdleBrand
    /\ IdlePipeline
    /\ IdlePrompt
    /\ IdleUtil

\* the clock moves on by an hour; past midnight the month may change
Tick ==
    /\ ctx_pc \in {"get_weather", "get_season", "get_time_of_day", "assemble"}
    /\ ticks < MaxTicks
    /\ ticks' = ticks + 1
    /\ \E next_month \in BOOLEAN :
           clock' = [hour |-> (clock.hour + 1) % 24,
                     month |-> IF clock.hour = 23 /\ next_month
                               THEN (clock.month % 12) + 1 ELSE clock.month]
    /\ UNCHANGED <<ws_api_key, ws_live, ws_city, ws_requests, weather_result,
                   sentence_result, season_result, time_of_day_result,
                   ctx_args, ctx_pc, ctx_weather_data, ctx_weather_context, ctx_season,
                   ctx_time_of_day, ctx_result,
                   paletteVars, expandVars, brandVars, pipelineVars, promptVars, utilVars>>

\* lines 31-32
CtxGetWeather ==
    /\ ctx_pc = "get_weather"
    /\ LET weather_data == get_weather(ctx_args.city, ws_api_key, ws_live, clock)
           weather_context == get_weather_context(weather_data.value)
       IN  IF weather_context.kind = "raise"
           THEN /\ ctx_result' = weather_context
                /\ ctx_pc' = "done"
                /\ UNCHANGED <<ctx_weather_data, ctx_weather_context>>
           ELSE /\ ctx_weather_data' = weather_data.value
                /\ ctx_weather_context' = weather_context.value
                /\ ctx_pc' = "get_season"
                /\ UNCHANGED ctx_result
    /\ ws_requests' = IF LiveConfigured(ws_api_key) THEN ws_requests + 1 ELSE ws_requests
    /\ UNCHANGED <<clock, ws_api_key, ws_live, ws_city, weather_result,
                   sentence_result, season_result, time_of_day_result,
                   ctx_args, ctx_season, ctx_time_of_day, ticks,
                   paletteVars, expandVars, brandVars, pipelineVars, promptVars, utilVars>>

\* line 35
CtxGetSeason ==
    /\ ctx_pc = "get_season"
    /\ ctx_season' = get_season(clock.month)
    /\ ctx_pc' = "get_time_of_day"
    /\ UNCHANGED <<weatherVars, ctx_args, ctx_weather_data, ctx_weather_context,
                   ctx_time_of_day, ctx_result, ticks,
                   paletteVars, expandVars, brandVars, pipelineVars, promptVars, utilVars>>

\* line 36
CtxGetTimeOfDay ==
    /\ ctx_pc = "get_time_of_day"
    /\ ctx_time_of_day' = get_time_of_day(clock.hour)
    /\ ctx_pc' = "assemble"
    /\ UNCHANGED <<weatherVars, ctx_args, ctx_weather_data, ctx_weather_context,
                   ctx_season, ctx_result, ticks,
                   paletteVars, expandVars, brandVars, pipelineVars, promptVars, utilVars>>

\* lines 38-63
CtxAssemble ==
    /\ ctx_pc = "assemble"
    /\ ctx_result' = Return(AssembleContext(ctx_args.city, ctx_args.product_category,
                                            ctx_args.custom_context, ctx_weather_data,
                                            ctx_weather_context, ctx_season,
                                            ctx_time_of_day, clock))
    /\ ctx_pc' = "done"
    /\ UNCHANGED <<weatherVars, ctx_args, ctx_weather_data, ctx_weather_context,
                   ctx_season, ctx_time_of_day, ticks,
                   paletteVars, expandVars, brandVars, pipelineVars, promptVars, utilVars>>

NextContext ==
    \/ Tick
    \/ CtxGetWeather
    \/ CtxGetSeason
    \/ CtxGetTimeOfDay
    \/ CtxAssemble

SpecContext == InitContext /\ [][NextContext]_vars

(***************************************************************************)
(* build_prompt called on a profile and a variation, and called again.     *)
(*                                                                         *)
(* The profiles: the one extract_brand_info returns without images, the    *)
(* one it returns for a logo whose first colour is grey and second red,    *)
(* a profile without a brand_palette, one with an empty brand_palette, one *)
(* whose brand_palette has an empty hex list, and an empty dict.  The      *)
(* contexts: the ten variations of two base contexts, a base context that  *)
(* was never expanded, a context with an empty city and an empty mood, and *)
(* an empty dict.                                                          *)
(***************************************************************************)
SampleProfiles ==
    { outcome.value :
          outcome \in extract_brand_info(None, None, "Acme", "beverage")
                        \cup extract_brand_info(
                                 Image(<< <<128, 128, 128>>, <<255, 0, 0>> >>), None, "", "") }
    \cup { [brand_name |-> "Acme", product_category |-> "Skincare & Beauty"],
           [brand_name |-> "Acme", product_category |-> "street food",
            brand_palette |-> <<>>],
           [product_category |-> "toys", brand_palette |-> [hex_colors |-> <<>>]],
           <<>> }

SampleVariations ==
    LET rainy == PlainContext(<<"Bangalore", MockWeather("Bangalore", 24, "rainy", "Rain"),
                                "monsoon">>, "morning", "beverage")
        snowy == PlainContext(<<"New York", MockWeather("New York", 2, "cold", "Snow"),
                                "winter">>, "evening", "beverage")
    IN  SetOf(create_context_variations(rainy, 10).value)
          \cup SetOf(create_context_variations(snowy, 10).value)
          \cup { snowy,
                 [city |-> "", theme |-> "lifestyle", mood |-> "", time_of_day |-> "afternoon"],
                 <<>> }

InitPrompt ==
    /\ pb_given \in [brand_info : SampleProfiles, context : SampleVariations]
    /\ pb_brand_info = pb_given.brand_info
    /\ pb_context = pb_given.context
    /\ pb_prompts = <<>>
    /\ IdlePalette
    /\ IdleExpand
    /\ IdleBrand
    /\ IdlePipeline
    /\ IdleWeather
    /\ IdleContext
    /\ IdleUtil

\* prompt = builder.build_prompt(brand_info, context)
BuildPrompt ==
    /\ pb_given # None
    /\ Len(pb_prompts) < MaxCalls
    /\ LET call == BuildPromptCall(pb_brand_info, pb_context)
       IN  /\ pb_prompts' = Append(pb_prompts, call.prompt)
           /\ pb_brand_info' = call.brand_info
           /\ pb_context' = call.context
    /\ UNCHANGED <<pb_given, paletteVars, expandVars, brandVars, pipelineVars,
                   weatherVars, contextVars, utilVars>>

NextPrompt == BuildPrompt

SpecPrompt == InitPrompt /\ [][NextPrompt]_vars

(***************************************************************************)
(* _get_style_modifiers called on a profile and a context.                 *)
(*                                                                         *)
(* The categories hold one keyword, several keywords in an order that      *)
(* differs from the order of the tests, a keyword inside a longer word,    *)
(* capitals, or no keyword; "" is a category of None or "".  The contexts  *)
(* have every weather category the tests name and two they do not, an      *)
(* empty weather dict or none, and every time of day or none.              *)
(***************************************************************************)
StyleCategories ==
    {"beverage", "Skincare & Beauty", "beauty", "street food", "Food & Beverage",
     "tech beverage", "Food Tech", "FinTech", "beauty tech", "toys", ""}

StyleProfiles ==
    {<<>>} \cup {[brand_name |-> "Acme", product_category |-> c] : c \in StyleCategories}

StyleWeathers ==
    {<<>>} \cup {MockWeather("Delhi", 20, "pleasant", m) :
                    m \in {"Rain", "Clear", "Clouds", "Snow", "Mist"}}

StyleTimes == {"morning", "afternoon", "evening", "night"}

StyleContexts ==
    {[city |-> "Delhi"]}
      \cup {[city |-> "Delhi", time_of_day |-> t] : t \in StyleTimes}
      \cup {[city |-> "Delhi", weather |-> w] : w \in StyleWeathers}
      \cup {[city |-> "Delhi", weather |-> w, time_of_day |-> t] :
                w \in StyleWeathers, t \in StyleTimes}

InitStyle ==
    /\ style_args \in [brand_info : StyleProfiles, context : StyleContexts]
    /\ style_result = Pending
    /\ IdlePalette
    /\ IdleExpand
    /\ IdleBrand
    /\ IdlePipeline
    /\ IdleWeather
    /\ IdleContext
    /\ IdlePrompt
    /\ IdleHex
    /\ IdleCaption

\* style_phrase = self._get_style_modifiers(brand_info, context)
GetStyleModifiers ==
    /\ style_args # None
    /\ style_result = Pending
    /\ style_result' = Return(get_style_modifiers(style_args.brand_info, style_args.context))
    /\ UNCHANGED <<style_args, paletteVars, expandVars, brandVars, pipelineVars,
                   weatherVars, contextVars, promptVars, hexVars, captionVars>>

NextStyle == GetStyleModifiers

SpecStyle == InitStyle /\ [][NextStyle]_vars

(***************************************************************************)
(* rgb_to_hex and hex_to_rgb applied one after the other.                  *)
(*                                                                         *)
(* A run starts from a hex string or from a colour, converts it, and       *)
(* converts the result back.  The strings are every "#" followed by three  *)
(* of the sample pairs, and some strings of another shape: capitals, no    *)
(* "#", two "#", three digits, a letter past f, a sign and blanks.  The     *)
(* colours have their channels among the sample channels.                  *)
(***************************************************************************)
SamplePairs == {"00", "09", "0a", "10", "7f", "80", "c3", "ff"}

OtherHexStrings ==
    {"#FFFFFF", "#0A7Fc3", "ffffff", "##0a7fc3", "#fff", "#gggggg", "#+f ff ", "#", ""}

SampleChannels == {0, 1, 9, 10, 15, 16, 127, 128, 254, 255}

InitHex ==
    /\ \/ \E a \in SamplePairs, b \in SamplePairs, c \in SamplePairs :
              hex_start = [kind |-> "text", text |-> "#" \o a \o b \o c]
       \/ \E str \in OtherHexStrings : hex_start = [kind |-> "text", text |-> str]
       \/ \E r \in SampleChannels, g \in SampleChannels, b \in SampleChannels :
              hex_start = [kind |-> "color", color |-> <<r, g, b>>]
    /\ hex_mid = Pending
    /\ hex_back = Pending
    /\ IdlePalette
    /\ IdleExpand
    /\ IdleBrand
    /\ IdlePipeline
    /\ IdleWeather
    /\ IdleContext
    /\ IdlePrompt
    /\ IdleStyle
    /\ IdleCaption

\* hex_to_rgb(s), or rgb_to_hex(c)
ConvertFirst ==
    /\ hex_start # None
    /\ hex_mid = Pending
    /\ hex_mid' = IF hex_start.kind = "text" THEN hex_to_rgb(hex_start.text)
                  ELSE Return(rgb_to_hex(hex_start.color))
    /\ UNCHANGED <<hex_start, hex_back, paletteVars, expandVars, brandVars, pipelineVars,
                   weatherVars, contextVars, promptVars, styleVars, captionVars>>

\* rgb_to_hex of the colour just read, or hex_to_rgb of the string just
\* written; a ValueError of the first conversion ends the run
ConvertBack ==
    /\ hex_start # None
    /\ hex_mid # Pending
    /\ hex_back = Pending
    /\ hex_mid.kind = "return"
    /\ hex_back' = IF hex_start.kind = "text" THEN Return(rgb_to_hex(hex_mid.value))
                   ELSE hex_to_rgb(hex_mid.value)
    /\ UNCHANGED <<hex_start, hex_mid, paletteVars, expandVars, brandVars, pipelineVars,
                   weatherVars, contextVars, promptVars, styleVars, captionVars>>

NextHex == ConvertFirst \/ ConvertBack

SpecHex == InitHex /\ [][NextHex]_vars

(***************************************************************************)
(* generate_caption called once.                                           *)
(*                                                                         *)
(* The brand profiles have a short name, a name of 70 characters, or no    *)
(* name and category.  The contexts are the ten variations of a base       *)
(* context and an empty dict.  max_length is the default or 80.  There is  *)
(* no model, or a model that fails, or a model that replies: a short text, *)
(* a text to be cleaned, an empty text, and texts of 150, 151 and 180      *)
(* characters.                                                             *)
(***************************************************************************)
RECURSIVE Repeat(_, _)
Repeat(str, n) == IF n <= 0 THEN "" ELSE str \o Repeat(str, n - 1)

CaptionProfiles ==
    { [brand_name |-> "Acme", product_category |-> "beverage"],
      [brand_name |-> Repeat("Acme Foods ", 6) \o "Acme", product_category |-> "beverage"],
      <<>> }

CaptionContexts ==
    SetOf(create_context_variations(
              PlainContext(<<"Bangalore", MockWeather("Bangalore", 24, "rainy", "Rain"),
                             "monsoon">>, "morning", "beverage"), 10).value)
      \cup { <<>> }

CaptionModels ==
    { None, ModelFailure("ResourceExhausted"), ModelFailure("ValueError") }
      \cup { ModelReply(text) :
                 text \in { "Sip the rain away with Acme! Order now.",
                            "  \"Caption: **Stay cool** in Bangalore!\"\n",
                            "",
                            Repeat("0123456789", 15),
                            Repeat("0123456789", 15) \o "!",
                            " " \o Repeat("Fresh taste! ", 14) } }

InitCaption ==
    /\ cap_args \in [brand_info : CaptionProfiles, context : CaptionContexts,
                     tone : {"engaging"}, max_length : {DefaultMaxLength, 80}]
    /\ cap_model \in CaptionModels
    /\ cap_result = Pending
    /\ IdlePalette
    /\ IdleExpand
    /\ IdleBrand
    /\ IdlePipeline
    /\ IdleWeather
    /\ IdleContext
    /\ IdlePrompt
    /\ IdleStyle
    /\ IdleHex

\* caption = self.generate_caption(brand_info, context, tone, max_length)
GenerateCaption ==
    /\ cap_args # None
    /\ cap_result = Pending
    /\ cap_result' = generate_caption_text(cap_model, cap_args.brand_info, cap_args.context,
                                           cap_args.max_length)
    /\ UNCHANGED <<cap_args, cap_model, paletteVars, expandVars, brandVars, pipelineVars,
                   weatherVars, contextVars, promptVars, styleVars, hexVars>>

NextCaption == GenerateCaption

SpecCaption == InitCaption /\ [][NextCaption]_vars

(***************************************************************************)
(* One request to POST /generate, a step of generate_creatives at a time.  *)
(* Every exception raised inside the try of line 93 ends the request at    *)
(* line 186.                                                               *)
(***************************************************************************)
\* what a client may send as a file: nothing, an image, an image whose pixel
\* data is cut short, or bytes that are no image
LogoUploads ==
    { None, Upload(NotAnImage), Upload(UnreadableImage),
      Upload(Image(<< <<255, 0, 0>>, <<128, 128, 128>> >>)) }
ProductUploads ==
    { None, Upload(NotAnImage), Upload(UnreadableImage),
      Upload(Image(<< <<0, 0, 255>> >>)) }

Requests ==
    [brand_name : {"Acme"}, product_category : {"beverage"},
     city : {"Bangalore", "Springfield"}, num_creatives : 1..MaxCreatives,
     logo : LogoUploads, product_image : ProductUploads]

InitPipeline ==
    /\ request \in Requests
    /\ pipeline_pc = "open_images"
    /\ logo_img = None
    /\ product_img = None
    /\ brand_info = None
    /\ context_variations = <<>>
    /\ prompts = <<>>
    /\ image_idx = 0
    /\ generated_images = <<>>
    /\ captions = <<>>
    /\ response = Pending
    /\ IdlePalette
    /\ IdleExpand
    /\ IdleBrand
    /\ IdleServices

\* line 185-186: except Exception as e: raise HTTPException(500, str(e))
Abort(error) ==
    /\ pipeline_pc' = "done"
    /\ response' = HTTPException(500, error)

\* lines 95-104
OpenImages ==
    /\ pipeline_pc = "open_images"
    /\ LET opened_logo ==
               IF request.logo # None THEN ImageOpen(request.logo.content) ELSE Return(None)
           opened_product ==
               IF request.product_image # None
               THEN ImageOpen(request.product_image.content) ELSE Return(None)
       IN  IF opened_logo.kind = "raise"
           THEN Abort(opened_logo.error) /\ UNCHANGED <<logo_img, product_img>>
           ELSE IF opened_product.kind = "raise"
           THEN /\ Abort(opened_product.error)
                /\ logo_img' = opened_logo.value
                /\ UNCHANGED product_img
           ELSE /\ logo_img' = opened_logo.value
                /\ product_img' = opened_product.value
                /\ pipeline_pc' = "extract_brand"
                /\ UNCHANGED response
    /\ UNCHANGED <<request, brand_info, context_variations, prompts, image_idx,
                   generated_images, captions, paletteVars, expandVars, brandVars,
                   weatherVars, contextVars, promptVars, utilVars>>

\* lines 107-112
ExtractBrand ==
    /\ pipeline_pc = "extract_brand"
    /\ \E outcome \in extract_brand_info(logo_img, product_img, request.brand_name,
                                         request.product_category) :
           IF outcome.kind = "raise"
           THEN Abort(outcome.error) /\ UNCHANGED brand_info
           ELSE /\ brand_info' = outcome.value
                /\ pipeline_pc' = "create_variations"
                /\ UNCHANGED response
    /\ UNCHANGED <<request, logo_img, product_img, context_variations, prompts, image_idx,
                   generated_images, captions, paletteVars, expandVars, brandVars,
                   weatherVars, contextVars, promptVars, utilVars>>

\* lines 115-124: get_context answers with the context of the city at the
\* time of the call, which is then expanded
CreateVariations ==
    /\ pipeline_pc = "create_variations"
    /\ \E context \in { c \in SampleContexts :
                            /\ c["city"] = request.city
                            /\ c["product_category"] = request.product_category
                            /\ ~HasKey(c, "theme") } :
           LET expanded == create_context_variations(context, request.num_creatives)
           IN  IF expanded.kind = "raise"
               THEN Abort(expanded.error) /\ UNCHANGED context_variations
               ELSE /\ context_variations' = expanded.value
                    /\ pipeline_pc' = "build_prompts"
                    /\ UNCHANGED response
    /\ UNCHANGED <<request, logo_img, product_img, brand_info, prompts, image_idx,
                   generated_images, captions, paletteVars, expandVars, brandVars,
                   weatherVars, contextVars, promptVars, utilVars>>

\* lines 127-130
BuildPrompts ==
    /\ pipeline_pc = "build_prompts"
    /\ prompts' = build_multiple_prompts(brand_info, context_variations)
    /\ pipeline_pc' = "generate_images"
    /\ UNCHANGED <<request, logo_img, product_img, brand_info, context_variations,
                   image_idx, generated_images, captions, response,
                   paletteVars, expandVars, brandVars,
                   weatherVars, contextVars, promptVars, utilVars>>

\* one pass of the loop of lines 134-140
GenerateImage ==
    /\ pipeline_pc = "generate_images"
    /\ image_idx < Len(prompts)
    /\ \E api \in {"ok", "unavailable"} :
           LET image == generate_image(prompts[image_idx + 1], api)
           IN  generated_images' =
                   IF image # None
                   THEN Append(generated_images, create_composite(image, logo_img))
                   ELSE generated_images
    /\ image_idx' = image_idx + 1
    /\ UNCHANGED <<request, pipeline_pc, logo_img, product_img, brand_info,
                   context_variations, prompts, captions, response,
                   paletteVars, expandVars, brandVars,
                   weatherVars, contextVars, promptVars, utilVars>>

\* lines 143-147, once the loop of line 134 is over
GenerateCaptions ==
    /\ pipeline_pc = "generate_images"
    /\ image_idx >= Len(prompts)
    /\ \E api \in [1..Len(context_variations) -> {"ok", "unavailable"}] :
           captions' = [k \in 1..Len(context_variations) |->
                           generate_caption(brand_info, context_variations[k], api[k])]
    /\ pipeline_pc' = "package"
    /\ UNCHANGED <<request, logo_img, product_img, brand_info, context_variations,
                   prompts, image_idx, generated_images, response,
                   paletteVars, expandVars, brandVars,
                   weatherVars, contextVars, promptVars, utilVars>>

\* lines 150-183
Package ==
    /\ pipeline_pc = "package"
    /\ LET image_paths == [k \in 1..Len(generated_images) |-> ImagePath(k - 1)]
           metadata == [k \in 1..Len(context_variations) |->
                           [context |-> context_variations[k], prompt |-> prompts[k]]]
       IN  response' = FileResponse(image_paths, captions, metadata)
    /\ pipeline_pc' = "done"
    /\ UNCHANGED <<request, logo_img, product_img, brand_info, context_variations,
                   prompts, image_idx, generated_images, captions,
                   paletteVars, expandVars, brandVars,
                   weatherVars, contextVars, promptVars, utilVars>>

NextPipeline ==
    \/ OpenImages
    \/ ExtractBrand
    \/ CreateVariations
    \/ BuildPrompts
    \/ GenerateImage
    \/ GenerateCaptions
    \/ Package

SpecPipeline == InitPipeline /\ [][NextPipeline]_vars

(***************************************************************************)
(* Definitions the claims are stated with.                                 *)
(***************************************************************************)
\* brightness 0.299r + 0.587g + 0.114b strictly below 128, the sum evaluated
\* in double precision as the code evaluates it.
BrightnessBelow128(c) ==
    \/ 299 * c[1] + 587 * c[2] + 114 * c[3] < 128000
    \/ 299 * c[1] + 587 * c[2] + 114 * c[3] = 128000 /\ c \in RoundsBelow

NumDark(clrs) == Cardinality({k \in 1..Len(clrs) : BrightnessBelow128(clrs[k])})

\* saturation(a) <= saturation(b), saturation being (max - min) / max, 0 at max 0
SatLeq(a, b) ==
    LET mxa == Max3(a[1], a[2], a[3])
        mxb == Max3(b[1], b[2], b[3])
        da == mxa - Min3(a[1], a[2], a[3])
        db == mxb - Min3(b[1], b[2], b[3])
    IN  IF mxa = 0 THEN TRUE
        ELSE IF mxb = 0 THEN da = 0
        ELSE da * mxb <= db * mxa

\* the lowest (1-based) position of clrs whose saturation is the maximum
MostSaturated(clrs) ==
    CHOOSE k \in 1..Len(clrs) :
        /\ \A j \in 1..Len(clrs) : SatLeq(clrs[j], clrs[k])
        /\ \A j \in 1..(k - 1) : ~SatLeq(clrs[k], clrs[j])

Analyzed == palette_result # Pending

C5_PrimaryIsFirstMostSaturated ==
    (Analyzed /\ colors # <<>>) =>
        /\ palette_result.kind = "return"
        /\ LET p == palette_result.value
               best == MostSaturated(colors)
           IN  /\ p.primary_color = colors[best]
               /\ p.primary_hex = p.hex_colors[best]
               /\ \A j \in 1..Len(colors) : SatLeq(colors[j], p.primary_color)
               /\ (\A j \in 1..Len(colors) : SatLeq(colors[j], <<0, 0, 0>>))
                     => p.primary_color = colors[1]

\* two different colours tie for the maximum saturation behind a grey first
\* colour, and the earlier of the two is the primary colour
C5_Witness ==
    /\ Analyzed
    /\ Len(colors) = 3
    /\ colors[2] # colors[3]
    /\ SatLeq(colors[2], colors[3]) /\ SatLeq(colors[3], colors[2])
    /\ ~SatLeq(colors[2], colors[1])
    /\ palette_result.kind = "return"
    /\ palette_result.value.primary_color = colors[2]
    /\ palette_result.value.primary_hex = palette_result.value.hex_colors[2]

(***************************************************************************)
(* C6: the analyser called with an empty colour list ends in an error and  *)
(* returns no palette.                                                     *)
(***************************************************************************)
C6_EmptyListRaises ==
    (Analyzed /\ colors = <<>>) => palette_result.kind = "raise"

\* the call with the empty list has been made and has raised
C6_Witness ==
    /\ colors = <<>>
    /\ palette_result.kind = "raise"

(***************************************************************************)
(* C1: for every base context and every n >= 1 the expansion returns       *)
(* exactly n variations, and the variation at 0-based position k has       *)
(* variation_id k + 1: the ids are 1..n in list order, with no gap and no  *)
(* repeat.  While the list is being built the ids are 1..Len already.      *)
(***************************************************************************)
C1_IdsAreOneToN ==
    /\ expand_pc # "raised"
    /\ \A k \in 1..Len(variations) : variations[k]["variation_id"] = k
    /\ Len(variations) <= num_variations
    /\ expand_pc = "returned" => Len(variations) = num_variations
       
\* a returned expansion of twelve variations whose base context carried a
\* caller-supplied variation_id
C1_Witness ==
    /\ expand_pc = "returned"
    /\ num_variations = 12
    /\ HasKey(base_context, "variation_id")
    /\ variations[12]["variation_id"] = 12

(***************************************************************************)
(* C2: the theme of the variation at 0-based position k is entry k mod 10  *)
(* of the fixed ordered list of ten themes, so positions k and k + 10      *)
(* carry the same theme.                                                   *)
(***************************************************************************)
TenThemes ==
    << "morning energy", "afternoon relaxation", "evening social", "weekend vibes",
       "festive celebration", "local culture", "weather-specific", "POI-focused",
       "lifestyle", "aspirational" >>

C2_ThemeIsCyclic ==
    /\ \A k \in 0..(Len(variations) - 1) :
           variations[k + 1]["theme"] = TenThemes[(k % 10) + 1]
    /\ \A k \in 1..Len(variations) :
           k + 10 <= Len(variations) =>
               variations[k]["theme"] = variations[k + 10]["theme"]

\* twelve variations returned; positions 0 and 10 are both "morning energy"
C2_Witness ==
    /\ expand_pc = "returned"
    /\ num_variations = 12
    /\ variations[1]["theme"] = "morning energy"
    /\ variations[11]["theme"] = "morning energy"

(***************************************************************************)
(* C3: the mood of a variation is decided by its theme: under every theme  *)
(* but "weather-specific" it is the string every base context gets for     *)
(* that theme, and under "weather-specific" it is "weather-aware, "        *)
(* followed by the weather description of the base context.                *)
(***************************************************************************)
C3_MoodFollowsTheme ==
    \A k \in 1..Len(variations) :
        LET v == variations[k]
        IN  /\ v["theme"] = "weather-specific" =>
                   v["mood"] = "weather-aware, " \o base_context["weather"]["description"]
            /\ v["theme"] # "weather-specific" =>
                   \A c \in SampleContexts :
                       v["mood"] = create_context_variations(c, k).value[k]["mood"]
            /\ \A j \in 1..Len(variations) :
                   variations[j]["theme"] = v["theme"] => variations[j]["mood"] = v["mood"]

\* the seventh variation of a rainy Bangalore context
C3_Witness ==
    /\ expand_pc = "returned"
    /\ num_variations >= 7
    /\ base_context["weather"]["description"] = "rainy"
    /\ variations[7]["theme"] = "weather-specific"
    /\ variations[7]["mood"] = "weather-aware, rainy"
    /\ variations[1]["mood"] = "energetic, fresh start, morning routine"

(***************************************************************************)
(* Definitions the claims on the brand profile are stated with.            *)
(***************************************************************************)
Extracted == brand_result # Pending
Supplied(image) == image # None
Readable(image) == image # None /\ image.readable

\* the first three colours extracted from an image
FirstThree(image) == SetOf(Slice(Slice(image.dominant, 5), 3))

(***************************************************************************)
(* C7: extract_brand_info called with neither a logo nor a product image   *)
(* returns a profile whose brand_palette has the hex colours #667eea,      *)
(* #764ba2, #f093fb in that order and a false dark flag, and whose         *)
(* has_logo and has_product_image are false.                               *)
(***************************************************************************)
C7_NoImagesGiveDefaultPalette ==
    (Extracted /\ ~Supplied(logo_image) /\ ~Supplied(product_image)) =>
        /\ brand_result.kind = "return"
        /\ brand_result.value["brand_palette"].hex_colors
             = <<"#667eea", "#764ba2", "#f093fb">>
        /\ brand_result.value["brand_palette"].is_dark_palette = FALSE
        /\ brand_result.value["has_logo"] = FALSE
        /\ brand_result.value["has_product_image"] = FALSE

\* the call without images has returned
C7_Witness ==
    /\ ~Supplied(logo_image) /\ ~Supplied(product_image)
    /\ brand_result.kind = "return"
    /\ HasKey(brand_result.value, "brand_palette")

(***************************************************************************)
(* C8: when both a logo and a product image are supplied, the colours of   *)
(* the brand palette are pairwise distinct, each is one of the first three *)
(* logo colours or the first three product colours, their number is the    *)
(* smaller of 5 and the number of distinct colours of that union, and the  *)
(* derived fields of the palette are those of the analyser applied to the  *)
(* list.                                                                   *)
(***************************************************************************)
C8_MergedPaletteIsCappedUnion ==
    (Extracted /\ Readable(logo_image) /\ Readable(product_image)) =>
        /\ brand_result.kind = "return"
        /\ LET palette == brand_result.value["brand_palette"]
               union == FirstThree(logo_image) \cup FirstThree(product_image)
           IN  /\ IsInjective(palette.colors)
               /\ SetOf(palette.colors) \subseteq union
               /\ Len(palette.colors) = Min2(5, Cardinality(union))
               /\ palette = get_brand_palette_info(palette.colors).value
               /\ palette.is_dark_palette
                    = (2 * NumDark(palette.colors) > Len(palette.colors))
               /\ palette.primary_color = palette.colors[MostSaturated(palette.colors)]

\* three logo colours and three other product colours: six distinct colours
\* merged into a palette of five
C8_Witness ==
    /\ Readable(logo_image) /\ Readable(product_image)
    /\ Cardinality(FirstThree(logo_image) \cup FirstThree(product_image)) = 6
    /\ brand_result.kind = "return"
    /\ Len(brand_result.value["brand_palette"].colors) = 5

(***************************************************************************)
(* C9: for all four combinations of a supplied or absent logo and product  *)
(* image the returned profile contains a brand_palette; when exactly one   *)
(* image is supplied the brand_palette is the palette analysed from that   *)
(* image, stored as logo_colors or product_colors.                         *)
(***************************************************************************)
C9_BrandPaletteAlwaysPresent ==
    /\ (Extracted /\ brand_result.kind = "return") =>
           HasKey(brand_result.value, "brand_palette")
    /\ (Extracted /\ Readable(logo_image) /\ ~Supplied(product_image)) =>
           /\ brand_result.kind = "return"
           /\ brand_result.value["brand_palette"] = brand_result.value["logo_colors"]
           /\ brand_result.value["brand_palette"].colors = Slice(logo_image.dominant, 5)
    /\ (Extracted /\ Readable(product_image) /\ ~Supplied(logo_image)) =>
           /\ brand_result.kind = "return"
           /\ brand_result.value["brand_palette"] = brand_result.value["product_colors"]
           /\ brand_result.value["brand_palette"].colors = Slice(product_image.dominant, 5)
    /\ (Extracted /\ (Readable(logo_image) \/ ~Supplied(logo_image))
                  /\ (Readable(product_image) \/ ~Supplied(product_image))) =>
           brand_result.kind = "return"

\* only a product image was supplied and its palette is the brand palette
C9_Witness ==
    /\ ~Supplied(logo_image)
    /\ Readable(product_image)
    /\ brand_result.kind = "return"
    /\ brand_result.value["brand_palette"] = brand_result.value["product_colors"]
    /\ ~HasKey(brand_result.value, "logo_colors")

(***************************************************************************)
(* C10: when the colours of a supplied image cannot be extracted because   *)
(* the image cannot be decoded, the generation pipeline is not aborted:    *)
(* the built-in default palette takes the place of the palette and the     *)
(* run goes on to produce the variations and the prompts.                  *)
(***************************************************************************)
Undecodable(upload) == upload # None /\ (upload.content = NotAnImage \/ ~upload.content.readable)

C10_DecodeErrorDoesNotAbort ==
    (pipeline_pc = "done"
        /\ (Undecodable(request.logo) \/ Undecodable(request.product_image))) =>
        /\ response.status_code = 200
        /\ Len(context_variations) = request.num_creatives
        /\ Len(prompts) = request.num_creatives
        /\ (Undecodable(request.logo) /\ Undecodable(request.product_image)) =>
               brand_info["brand_palette"] = DefaultPalette

(***************************************************************************)
(* Definitions the claims on the weather service are stated with.          *)
(***************************************************************************)
NoLiveSource == ws_api_key \in {"", "your_weather_api_key_here"}
WeatherReturned == weather_result # Pending
Seasons == {"winter", "spring", "monsoon", "autumn"}

(***************************************************************************)
(* C11: get_weather always returns a weather record and never raises.      *)
(* When the live call is made and fails (request error, timeout, HTTP      *)
(* error status, unreadable body, missing field in the reply) the result   *)
(* is the location-based mock record of the city; with no API key or the   *)
(* placeholder key no live call is made and the mock record is returned.   *)
(***************************************************************************)
C11_WeatherNeverFails ==
    WeatherReturned =>
        /\ weather_result.kind = "return"
        /\ weather_result.value["city"] = ws_city
        /\ (~NoLiveSource /\ ws_live \in LiveFailures \cup IncompleteReplies) =>
               /\ ws_requests = 1
               /\ weather_result.value["source"] = "location_based_mock"
               /\ weather_result.value = get_location_based_weather(ws_city, clock)
        /\ NoLiveSource =>
               /\ ws_requests = 0
               /\ weather_result.value["source"] = "location_based_mock"
               /\ weather_result.value = get_location_based_weather(ws_city, clock)

\* the live call was made, timed out, and the mock record came back
C11_Witness ==
    /\ ws_api_key = "k3y"
    /\ ws_live = LiveFailure("Timeout")
    /\ ws_requests = 1
    /\ WeatherReturned
    /\ weather_result.kind = "return"
    /\ weather_result.value["source"] = "location_based_mock"

(***************************************************************************)
(* C12: with no live source, for every city of the table and every season  *)
(* the record's temperature, description and main category are the table   *)
(* entry of the city for the current season (Bangalore in the monsoon:     *)
(* "Rain", "rainy"); for a city outside the table they are 25, "pleasant"  *)
(* and "Clear".                                                            *)
(***************************************************************************)
C12_MockFollowsTable ==
    (WeatherReturned /\ NoLiveSource) =>
        LET record == weather_result.value
            season == CHOOSE name \in Seasons :
                          \/ name = "winter" /\ clock.month \in {12, 1, 2}
                          \/ name = "spring" /\ clock.month \in {3, 4, 5}
                          \/ name = "monsoon" /\ clock.month \in {6, 7, 8}
                          \/ name = "autumn" /\ clock.month \in {9, 10, 11}
        IN  /\ ws_city \in TableCities =>
                /\ record["temperature"] = SeasonalData(ws_city)[season].temp
                /\ record["description"] = SeasonalData(ws_city)[season].desc
                /\ record["main"] = SeasonalData(ws_city)[season].main
            /\ (ws_city = "Bangalore" /\ season = "monsoon") =>
                /\ record["main"] = "Rain"
                /\ record["description"] = "rainy"
            /\ ws_city \notin TableCities =>
                /\ record["temperature"] = 25
                /\ record["description"] = "pleasant"
                /\ record["main"] = "Clear"

\* Bangalore in July without a key: the rainy record of the table
C12_Witness ==
    /\ ws_city = "Bangalore"
    /\ clock.month = 7
    /\ ws_api_key = ""
    /\ WeatherReturned
    /\ weather_result.value["main"] = "Rain"
    /\ weather_result.value["temperature"] = 24

(***************************************************************************)
(* C13: get_season answers for every month 1..12 with exactly one of the   *)
(* four seasons: winter for 12, 1, 2, spring for 3, 4, 5, monsoon for      *)
(* 6, 7, 8 and autumn for 9, 10, 11.                                       *)
(***************************************************************************)
C13_SeasonOfMonth ==
    season_result # Pending =>
        /\ season_result.kind = "return"
        /\ season_result.value \in Seasons
        /\ (season_result.value = "winter") = (clock.month \in {12, 1, 2})
        /\ (season_result.value = "spring") = (clock.month \in {3, 4, 5})
        /\ (season_result.value = "monsoon") = (clock.month \in {6, 7, 8})
        /\ (season_result.value = "autumn") = (clock.month \in {9, 10, 11})

\* December is winter
C13_Witness ==
    /\ clock.month = 12
    /\ season_result = Return("winter")

(***************************************************************************)
(* C14: get_time_of_day answers for every hour 0..23: morning for 5..11,   *)
(* afternoon for 12..16, evening for 17..20 and night for every other hour *)
(* (21..23 and 0..4).                                                      *)
(***************************************************************************)
C14_TimeOfDayOfHour ==
    time_of_day_result # Pending =>
        /\ time_of_day_result.kind = "return"
        /\ (time_of_day_result.value = "morning") = (clock.hour \in 5..11)
        /\ (time_of_day_result.value = "afternoon") = (clock.hour \in 12..16)
        /\ (time_of_day_result.value = "evening") = (clock.hour \in 17..20)
        /\ (time_of_day_result.value = "night") = (clock.hour \in (21..23) \cup (0..4))

\* noon is the first hour of the afternoon
C14_Witness ==
    /\ clock.hour = 12
    /\ time_of_day_result = Return("afternoon")

(***************************************************************************)
(* C15: the weather-context sentence of every weather record holds exactly *)
(* one temperature phrase, chosen by the strict thresholds > 35, > 30,     *)
(* > 25, > 20, > 15, else (a temperature on a threshold falls in the lower *)
(* band), followed by at most one sky clause: the rain clause if the       *)
(* description or the category indicates rain, else the cloud clause if    *)
(* they indicate cloud, else the clear clause if they indicate clear, else *)
(* none.                                                                   *)
(***************************************************************************)
BandPhrases ==
    << "extremely hot weather", "hot and sunny conditions", "warm and pleasant conditions",
       "comfortable weather", "cool weather", "cold weather" >>

SkyPhrases == << "Rainy conditions", "Cloudy skies", "Clear skies" >>

\* the band of a temperature, 1 (hottest) to 6
BandOf(temp) ==
    IF temp > 35 THEN 1
    ELSE IF 30 < temp /\ temp <= 35 THEN 2
    ELSE IF 25 < temp /\ temp <= 30 THEN 3
    ELSE IF 20 < temp /\ temp <= 25 THEN 4
    ELSE IF 15 < temp /\ temp <= 20 THEN 5
    ELSE 6

Indicates(record, word, category) ==
    Contains(word, Lower(record["description"])) \/ record["main"] = category

\* the sky clause of a record, 1..3, or 0 for none
SkyOf(record) ==
    IF Indicates(record, "rain", "Rain") THEN 1
    ELSE IF Indicates(record, "cloud", "Clouds") THEN 2
    ELSE IF Indicates(record, "clear", "Clear") THEN 3
    ELSE 0

\* position of the first occurrence of sub in str, 0 if there is none
Find(sub, str) ==
    IF Contains(sub, str)
    THEN CHOOSE k \in 1..Len(str) :
             /\ SubSeq(str, k, k + Len(sub) - 1) = sub
             /\ \A j \in 1..(k - 1) : SubSeq(str, j, j + Len(sub) - 1) # sub
    ELSE 0

C15_WeatherSentence ==
    sentence_result # Pending =>
        /\ sentence_result.kind = "return"
        /\ LET sentence == sentence_result.value
               record == weather_result.value
               band == BandOf(record["temperature"])
               sky == SkyOf(record)
           IN  /\ \A b \in 1..6 : Contains(", " \o BandPhrases[b], sentence) = (b = band)
               /\ \A k \in 1..3 : Contains(". " \o SkyPhrases[k], sentence) = (k = sky)
               /\ sky # 0 => Find(", " \o BandPhrases[band], sentence)
                                < Find(". " \o SkyPhrases[sky], sentence)

\* 30 degrees falls in the band above 25, and a description that mentions
\* rain gets the rain clause although the category is Clouds
C15_Witness ==
    /\ sentence_result # Pending
    /\ weather_result.value["temperature"] = 30
    /\ weather_result.value["description"] = "Clear after rain"
    /\ weather_result.value["main"] = "Clouds"
    /\ Contains("warm and pleasant conditions", sentence_result.value)
    /\ Contains(". Rainy conditions", sentence_result.value)

(***************************************************************************)
(* Definitions the claims on get_context are stated with.                  *)
(***************************************************************************)
ContextReturned == ctx_pc = "done" /\ ctx_result.kind = "return"

\* the city is in none of the tables of points of interest, culture, vibes
OutsideCityTables(city) ==
    /\ city \notin DOMAIN poi_data
    /\ city \notin DOMAIN city_culture
    /\ city \notin DOMAIN vibes

OverrideKeys ==
    IF ctx_args.custom_context = None THEN {} ELSE DOMAIN ctx_args.custom_context

\* the fields get_context computes, before any override
ComputedFields ==
    [city |-> ctx_args.city,
     weather |-> ctx_weather_data,
     weather_context |-> ctx_weather_context,
     season |-> ctx_season,
     time_of_day |-> ctx_time_of_day,
     pois |-> get_pois(ctx_args.city),
     cultural_context |-> get_cultural_context(ctx_args.city, ctx_season),
     local_vibes |-> get_local_vibes(ctx_args.city),
     product_category |-> ctx_args.product_category,
     timestamp |-> clock]

(***************************************************************************)
(* C16: for every city name absent from the per-city tables get_context    *)
(* returns a context without raising, and each of the three fallback       *)
(* values (the list of points of interest, the cultural-context sentence,  *)
(* the local-vibe sentence) contains the name of the city.                 *)
(***************************************************************************)
C16_FallbacksNameTheCity ==
    (ctx_pc = "done" /\ OutsideCityTables(ctx_args.city)) =>
        /\ ctx_result.kind = "return"
        /\ \E k \in 1..Len(ctx_result.value["pois"]) :
               Contains(ctx_args.city, ctx_result.value["pois"][k])
        /\ Contains(ctx_args.city, ctx_result.value["cultural_context"])
        /\ Contains(ctx_args.city, ctx_result.value["local_vibes"])

(***************************************************************************)
(* C17: when get_context is given an overrides mapping, every key of the   *)
(* mapping is in the returned context with the value of the mapping,       *)
(* whether the key names a computed field or not, and every computed field *)
(* that is not a key of the mapping keeps its computed value.              *)
(***************************************************************************)
C17_OverridesWinOthersKept ==
    ContextReturned =>
        /\ DOMAIN ctx_result.value = DOMAIN ComputedFields \cup OverrideKeys
        /\ \A k \in OverrideKeys :
               ctx_result.value[k] = ctx_args.custom_context[k]
        /\ \A k \in DOMAIN ComputedFields \ OverrideKeys :
               ctx_result.value[k] = ComputedFields[k]

\* the override replaced the computed season and added a key; the city kept
\* its computed value
C17_Witness ==
    /\ ContextReturned
    /\ ctx_args.custom_context = [season |-> "festive", campaign |-> "launch"]
    /\ ctx_season \in Seasons
    /\ ctx_result.value["season"] = "festive"
    /\ ctx_result.value["campaign"] = "launch"
    /\ ctx_result.value["city"] = ctx_args.city

(***************************************************************************)
(* Definitions the claims on the prompt builder are stated with.           *)
(***************************************************************************)
Field(d, k, default) == IF k \in DOMAIN d THEN d[k] ELSE default

\* the hex list of the profile's brand palette, empty if there is none
PaletteHexes(profile) == Field(Field(profile, "brand_palette", <<>>), "hex_colors", <<>>)

PromptTail == ". High quality, clear composition, easy-to-read poster design"

HeroClause == "the product is the main hero in the center, with space for a logo"

EndsWith(str, suffix) ==
    /\ Len(str) >= Len(suffix)
    /\ SubSeq(str, Len(str) - Len(suffix) + 1, Len(str)) = suffix

\* the prompt the rendering rules give for a profile and a variation
RenderedPrompt(profile, variation) ==
    LET city == Field(variation, "city", "")
        theme == Field(variation, "theme", "")
        mood == Field(variation, "mood", "")
        hexes == PaletteHexes(profile)
    IN  "Clean marketing poster for " \o Field(profile, "brand_name", "Brand")
          \o " " \o Field(profile, "product_category", "product")
          \o (IF city # "" THEN " in " \o city ELSE "")
          \o ", " \o HeroClause
          \o (IF theme # "" THEN ", inspired by " \o theme ELSE "")
          \o (IF mood # "" THEN ", with a " \o mood \o " feel" ELSE "")
          \o (IF Len(hexes) > 0
              THEN ", using " \o hexes[1] \o " as the main brand color" ELSE "")
          \o ", " \o get_style_modifiers(profile, variation)
          \o PromptTail

(***************************************************************************)
(* C18: for every profile and variation build_prompt renders the clauses   *)
(* in the order poster clause, hero clause, theme, mood, brand colour,     *)
(* style phrase, joined by ", "; "in {city}" is there iff the city is not  *)
(* empty, the theme clause iff the theme is not empty, the mood clause iff *)
(* the mood is not empty; the poster clause and the hero clause are always *)
(* there and the prompt always ends with the fixed closing sentence.       *)
(***************************************************************************)
C18_ClausesInFixedOrder ==
    \A k \in 1..Len(pb_prompts) :
        LET prompt == pb_prompts[k]
            city == Field(pb_given.context, "city", "")
            theme == Field(pb_given.context, "theme", "")
            mood == Field(pb_given.context, "mood", "")
        IN  /\ prompt = RenderedPrompt(pb_given.brand_info, pb_given.context)
            /\ SubSeq(prompt, 1, 27) = "Clean marketing poster for "
            /\ Contains(", " \o HeroClause \o ", ", prompt)
            /\ EndsWith(prompt, PromptTail)
            /\ Contains(" in " \o city \o ", " \o HeroClause, prompt) = (city # "")
            /\ Contains(", inspired by ", prompt) = (theme # "")
            /\ Contains(", with a ", prompt) = (mood # "")

\* a prompt with every clause, and a prompt without city and mood
C18_Witness ==
    /\ Len(pb_prompts) >= 1
    /\ \/ pb_prompts[1] = "Clean marketing poster for Acme beverage in Bangalore, "
                \o "the product is the main hero in the center, with space for a logo, "
                \o "inspired by morning energy, "
                \o "with a energetic, fresh start, morning routine feel, "
                \o "using #667eea as the main brand color, "
                \o "refreshing drink visual, cozy feel"
                \o ". High quality, clear composition, easy-to-read poster design"
       \/ /\ Field(pb_given.context, "city", "") = ""
          /\ Field(pb_given.context, "theme", "") = "lifestyle"
          /\ ~Contains("with a", pb_prompts[1])

(***************************************************************************)
(* C19: the clause "using {hex} as the main brand color" is in the prompt  *)
(* iff the brand palette of the profile has at least one hex entry, and    *)
(* then {hex} is the first entry of the palette's hex list.                *)
(***************************************************************************)
C19_ColourClauseIffHexEntry ==
    \A k \in 1..Len(pb_prompts) :
        LET hexes == PaletteHexes(pb_given.brand_info)
        IN  /\ Contains(" as the main brand color", pb_prompts[k]) = (Len(hexes) > 0)
            /\ Len(hexes) > 0 =>
                   Contains(", using " \o hexes[1] \o " as the main brand color, ",
                            pb_prompts[k])

\* a palette whose first hex entry is not its primary hex: the first is named
C19_Witness ==
    /\ Len(pb_prompts) >= 1
    /\ PaletteHexes(pb_given.brand_info) = <<"#808080", "#ff0000">>
    /\ pb_given.brand_info["brand_palette"].primary_hex = "#ff0000"
    /\ Contains("using #808080 as the main brand color", pb_prompts[1])

StyleReturned == style_args # None /\ style_result # Pending

StartsWith(str, prefix) ==
    /\ Len(str) >= Len(prefix)
    /\ SubSeq(str, 1, Len(prefix)) = prefix

\* the keyword groups in the order they are tested, with their phrases
KeywordTable ==
    << [keywords |-> {"beverage"}, phrase |-> "refreshing drink visual"],
       [keywords |-> {"skincare", "beauty"}, phrase |-> "clean, minimal beauty style"],
       [keywords |-> {"food"}, phrase |-> "appetizing, simple food visual"],
       [keywords |-> {"tech"}, phrase |-> "modern, minimal tech style"] >>

\* the rows of the table with a keyword in the lowercased category
MatchingRows(category) ==
    {k \in 1..Len(KeywordTable) :
        \E w \in KeywordTable[k].keywords : Contains(w, Lower(category))}

BasePhraseOf(category) ==
    IF MatchingRows(category) = {} THEN "simple lifestyle aesthetic"
    ELSE KeywordTable[CHOOSE k \in MatchingRows(category) :
                          \A j \in MatchingRows(category) : k <= j].phrase

(***************************************************************************)
(* C21: the style phrase begins with the base phrase of the first keyword  *)
(* group, in the order beverage, skincare or beauty, food, tech, that has  *)
(* a keyword in the lowercased product category; a category with several   *)
(* keywords gets the phrase of the earliest group, and a category with     *)
(* none, or an absent category, gets "simple lifestyle aesthetic".         *)
(***************************************************************************)
C21_BasePhraseByFirstKeyword ==
    StyleReturned =>
        LET category == Field(style_args.brand_info, "product_category", "")
            phrase == style_result.value
        IN  /\ style_result.kind = "return"
            /\ \/ phrase = BasePhraseOf(category)
               \/ StartsWith(phrase, BasePhraseOf(category) \o ", ")
            /\ \A k \in 1..Len(KeywordTable) :
                   Contains(KeywordTable[k].phrase, phrase)
                       <=> /\ k \in MatchingRows(category)
                           /\ \A j \in MatchingRows(category) : k <= j
            /\ Contains("simple lifestyle aesthetic", phrase)
                   <=> MatchingRows(category) = {}

\* a category with the keywords of rows 3 and 1 gets the phrase of row 1
C21_Witness ==
    /\ StyleReturned
    /\ Field(style_args.brand_info, "product_category", "") = "Food & Beverage"
    /\ MatchingRows("Food & Beverage") = {1, 3}
    /\ StartsWith(style_result.value, "refreshing drink visual")

WeatherClauses ==
    [Rain |-> "cozy feel", Clear |-> "bright feel", Clouds |-> "soft light"]

TimeClauses ==
    [morning |-> "morning light", evening |-> "warm evening light",
     night |-> "night-time glow"]

\* the weather category of a context, "" if it has none
WeatherCategory(c) == Field(Field(c, "weather", <<>>), "main", "")

\* the one lighting clause the rules allow for a context, "" for none
LightingClauseOf(c) ==
    IF WeatherCategory(c) \in DOMAIN WeatherClauses
    THEN WeatherClauses[WeatherCategory(c)]
    ELSE IF Field(c, "time_of_day", "") \in DOMAIN TimeClauses
    THEN TimeClauses[Field(c, "time_of_day", "")]
    ELSE ""

AllLightingClauses ==
    {WeatherClauses[k] : k \in DOMAIN WeatherClauses}
      \cup {TimeClauses[k] : k \in DOMAIN TimeClauses}

(***************************************************************************)
(* C22: the style phrase has at most one lighting clause: the weather one  *)
(* when the weather category is Rain, Clear or Clouds, whatever the time   *)
(* of day; the time-of-day one (morning, evening, night) only when no      *)
(* weather clause applies; none when no weather clause applies and the     *)
(* time of day is afternoon.                                               *)
(***************************************************************************)
C22_WeatherClauseBeforeTimeOfDay ==
    StyleReturned =>
        LET expected == LightingClauseOf(style_args.context)
            phrase == style_result.value
        IN  /\ \A c \in AllLightingClauses : Contains(c, phrase) <=> c = expected
            /\ expected # "" => EndsWith(phrase, ", " \o expected)
            /\ Cardinality({c \in AllLightingClauses : Contains(c, phrase)}) <= 1

\* rain in the morning: the weather clause, not the morning one
C22_Witness ==
    /\ StyleReturned
    /\ WeatherCategory(style_args.context) = "Rain"
    /\ Field(style_args.context, "time_of_day", "") = "morning"
    /\ EndsWith(style_result.value, ", cozy feel")
    /\ ~Contains("morning light", style_result.value)

(***************************************************************************)
(* Definitions the claim on the hex conversions is stated with.            *)
(***************************************************************************)
LowerHexChars == {"0", "1", "2", "3", "4", "5", "6", "7", "8", "9",
                  "a", "b", "c", "d", "e", "f"}

\* "#" followed by six characters of 0-9a-f
WellFormedHex(str) ==
    /\ Len(str) = 7
    /\ SubSeq(str, 1, 1) = "#"
    /\ \A k \in 2..7 : SubSeq(str, k, k) \in LowerHexChars

(***************************************************************************)
(* C23: for every well-formed 7-character lowercase hex string s,          *)
(* rgb_to_hex(hex_to_rgb(s)) = s; and for every colour c with channels in  *)
(* 0..255, hex_to_rgb(rgb_to_hex(c)) = c.                                  *)
(***************************************************************************)
C23_HexRoundTrip ==
    /\ (hex_start # None /\ hex_mid # Pending /\ hex_start.kind = "text"
          /\ WellFormedHex(hex_start.text))
         => /\ hex_mid.kind = "return"
            /\ hex_back # Pending => hex_back = Return(hex_start.text)
    /\ (hex_start # None /\ hex_mid # Pending /\ hex_start.kind = "color")
         => /\ WellFormedHex(hex_mid.value)
            /\ hex_back # Pending => hex_back = Return(hex_start.color)

\* "#0a7fc3" read as (10, 127, 195) and written back
C23_Witness ==
    /\ hex_start = [kind |-> "text", text |-> "#0a7fc3"]
    /\ hex_mid = Return(<<10, 127, 195>>)
    /\ hex_back = Return("#0a7fc3")

(***************************************************************************)
(* Definitions the claim on the order of the merged palette is stated      *)
(* with.                                                                   *)
(***************************************************************************)
\* the list without the later occurrences of a colour, in insertion order
RECURSIVE Deduplicated(_)
Deduplicated(lst) ==
    IF Len(lst) = 0 THEN <<>>
    ELSE LET front == Deduplicated(SubSeq(lst, 1, Len(lst) - 1))
         IN  IF lst[Len(lst)] \in SetOf(front) THEN front
             ELSE Append(front, lst[Len(lst)])

\* the first three logo colours, then the first three product colours
MergeInput == Slice(logo_image.dominant, 3) \o Slice(product_image.dominant, 3)

(***************************************************************************)
(* C24: when both images are supplied, the colour list of the merged brand *)
(* palette is the deduplicated union in insertion order (the first three   *)
(* logo colours in their order, then those of the first three product      *)
(* colours not yet present) truncated to 5, so that with 6 distinct        *)
(* colours the one dropped is the product's third.                         *)
(***************************************************************************)
C24_MergedListInInsertionOrder ==
    (Extracted /\ Readable(logo_image) /\ Readable(product_image)
       /\ brand_result.kind = "return") =>
        /\ brand_result.value["brand_palette"].colors
               = Slice(Deduplicated(MergeInput), 5)
        /\ Cardinality(SetOf(MergeInput)) = 6 =>
               product_image.dominant[3]
                   \notin SetOf(brand_result.value["brand_palette"].colors)

C26_ExpansionNeverRaises ==
    /\ expand_pc # "raised"
    /\ (expand_pc = "returned" /\ num_variations >= 7) =>
           /\ Len(variations) >= 7
           /\ variations[7]["theme"] = "weather-specific"

(***************************************************************************)
(* Definitions the claim on the frame of the expansion is stated with.     *)
(***************************************************************************)
WrittenKeys == {"theme", "mood", "variation_id"}

\* the base context is as the caller built it and every variation in the
\* list agrees with it outside the three written keys
BaseContextKept ==
    /\ base_context = given_context
    /\ \A k \in 1..Len(variations) :
           /\ DOMAIN variations[k] = DOMAIN given_context \cup WrittenKeys
           /\ \A key \in DOMAIN given_context \ WrittenKeys :
                  variations[k][key] = given_context[key]

\* a step leaves the variations already in the list as they were
EarlierVariationsKept ==
    /\ Len(variations') >= Len(variations)
    /\ \A k \in 1..Len(variations) : variations'[k] = variations[k]

(***************************************************************************)
(* C27: create_context_variations leaves the base context unchanged (no    *)
(* key is added, no field changes value), every variation agrees with the  *)
(* base context on every key other than theme, mood and variation_id, and  *)
(* writing those keys on one variation changes no other variation.         *)
(***************************************************************************)
C27_BaseAndOtherVariationsUntouched ==
    /\ [](given_context # None => BaseContextKept)
    /\ [][given_context # None => EarlierVariationsKept]_vars

\* three variations made from a base context that has no theme, which still
\* has none
C27_Witness ==
    /\ given_context # None
    /\ Len(variations) = 3
    /\ ~HasKey(given_context, "theme")
    /\ ~HasKey(base_context, "theme")
    /\ variations[1]["theme"] = "morning energy"
    /\ variations[3]["theme"] = "evening social"
    /\ variations[1]["city"] = base_context["city"]

(***************************************************************************)
(* C28: within one get_context call with no live weather source, the       *)
(* season in the season field of the context, which is also the season of  *)
(* the festival list in cultural_context, is the season that selected the  *)
(* mock weather record in the weather field, even when the clock advances  *)
(* past a month boundary between the reads.  Stated for the cities of the  *)
(* weather table, whose record depends on the season, and for calls whose  *)
(* overrides replace neither field.                                        *)
(***************************************************************************)
C28_SeasonFieldIsSeasonOfWeather ==
    (ContextReturned /\ NoLiveSource /\ ctx_args.city \in TableCities
       /\ OverrideKeys \cap {"season", "weather", "cultural_context"} = {}) =>
        LET season == ctx_result.value["season"]
            record == ctx_result.value["weather"]
            entry == SeasonalData(ctx_args.city)[season]
        IN  /\ season \in Seasons
            /\ ctx_result.value["cultural_context"]
                   = get_cultural_context(ctx_args.city, season)
            /\ record["temperature"] = entry.temp
            /\ record["description"] = entry.desc
            /\ record["main"] = entry.main

(***************************************************************************)
(* C29: for every profile returned by extract_brand_info, the hex colour   *)
(* named in the "main brand color" clause of the prompt is the primary hex *)
(* of the brand palette, its most saturated colour.                        *)
(***************************************************************************)
C29_PromptNamesPrimaryHex ==
    \A k \in 1..Len(pb_prompts) :
        LET palette == Field(pb_given.brand_info, "brand_palette", <<>>)
        IN  HasKey(palette, "primary_hex") =>
                Contains("using " \o palette.primary_hex \o " as the main brand color",
                         pb_prompts[k])

(***************************************************************************)
(* C30: generate_caption never raises and always returns a caption of at   *)
(* most max_length characters, on every path: the reply of the model (cut  *)
(* to max_length with a trailing "..."), a failed model call, and no model *)
(* configured (the template chosen by (variation_id - 1) mod 10).          *)
(***************************************************************************)
C30_CaptionWithinMaxLength ==
    (cap_args # None /\ cap_result # Pending) =>
        /\ cap_result.kind = "return"
        /\ Len(cap_result.value) <= cap_args.max_length

====
